---- MODULE Spec2Model ----
(***************************************************************************)
(* QSL card lifecycle and log reconciliation engine of QSLCard-Manager     *)
(* (src/main.py): DatabaseManager, QSL_ID_Generator and the handlers of    *)
(* LogManagementWidget / MainWindow that drive them.                       *)
(*                                                                         *)
(* The SQLite store is three tables: logs (contacts), qsl_cards and        *)
(* qsl_log_link.  The connection never issues PRAGMA foreign_keys, so the  *)
(* FOREIGN KEY ... ON DELETE CASCADE clauses of the schema are inert.      *)
(* Text columns that the code slices or parses (qsl_id, time_on, comment)  *)
(* are sequences of one-character strings.  created_at is the clock's      *)
(* isoformat() reading at insertion, and the clock advances between any    *)
(* two add_qsl_card calls, so the created_at order of the qsl_cards rows   *)
(* is their insertion order: the table is the sequence of its rows in that *)
(* order, and created_at is a row's position.                              *)
(*                                                                         *)
(* A handler is one step, except run_print_job: print_function ends in a   *)
(* modal message box, so after each card that was added the handler waits  *)
(* for the operator with that card committed, and goes on (reading the     *)
(* clock and the store again) when the box is closed.  No other handler    *)
(* runs while the box is open; the clock does.                             *)
(*                                                                         *)
(* Spec: every statement succeeds unless a key constraint refuses it;      *)
(* SpecFault: a statement may raise sqlite3.Error; the other               *)
(* specifications apply one part of the program to bounded inputs.         *)
(***************************************************************************)
EXTENDS Integers, Sequences, FiniteSets, TLC

VARIABLES
    logs,    \* table logs: contact id -> row
    cards,   \* table qsl_cards: rows [qsl_id, direction, status] in created_at order
    links,   \* table qsl_log_link: set of rows [qsl_id, log_id]
    now,     \* datetime.datetime.now(): [year, t], t the readings add_qsl_card made
    faults,  \* storage statements that raised sqlite3.Error so far
    issued,  \* history: the ids of the cards issued so far, in order (where kept)
    job,     \* run_print_job waiting in print_function's message box, if any
    last     \* history: the handler that ran last, its inputs and its results

vars == <<logs, cards, links, now, faults, issued, job, last>>

(***************************** bounds **************************************)
MaxLogId == 2      \* contact ids are 1..MaxLogId
MaxClock == 2      \* add_qsl_card calls (clock readings) in one behaviour
MaxYears == 1      \* year changes in one behaviour
MaxFaults == 1     \* failing storage statements in one behaviour
MaxMergeLogs == 3  \* contacts of one key in a table handed to the reconciler
MaxScanLogs == 4   \* contacts in a table handed to the duplicate scan

(************************* program constants *******************************)
WindowMinutes == 5     \* datetime.timedelta(minutes=5)
SerialWidth == 6       \* f"{serial:06d}" and last_id[2:8]
TimeWidth == 6         \* time_on.zfill(6)
TokenBytes == 8        \* secrets.token_hex(8)
FirstYear == 2025      \* the year the clock starts in

NULL == "None"         \* Python None / SQL NULL in a text column
NoRow == [none |-> TRUE]   \* fetch_one() returning None
NoJob == [pending |-> FALSE]   \* no print job is waiting for the operator
Raised == "ValueError"   \* generate() raising ValueError
NoSortId == 0          \* SQL NULL in the integer column sort_id

Directions == {"RC", "TC"}

(************************** text helpers ***********************************)
Digit == <<"0", "1", "2", "3", "4", "5", "6", "7", "8", "9">>

IsDigit(c) == \E i \in 1..10 : Digit[i] = c

DigitVal(c) == CHOOSE i \in 0..9 : Digit[i + 1] = c

\* str(n) for n >= 0
RECURSIVE Decimal(_)
Decimal(n) ==
    IF n < 10 THEN <<Digit[n + 1]>>
    ELSE Decimal(n \div 10) \o <<Digit[(n % 10) + 1]>>

\* s.zfill(w), and the 0w d format: left-pad with "0" up to width w, never cut
zfill(s, w) ==
    IF Len(s) >= w THEN s ELSE [i \in 1..(w - Len(s)) |-> "0"] \o s

\* int(s) for a string of digits
RECURSIVE ToInt(_)
ToInt(s) ==
    IF s = <<>> THEN 0
    ELSE ToInt(SubSeq(s, 1, Len(s) - 1)) * 10 + DigitVal(s[Len(s)])

\* str.upper() on one character
UpperChar(c) ==
    CASE c = "a" -> "A" [] c = "b" -> "B" [] c = "c" -> "C"
      [] c = "d" -> "D" [] c = "e" -> "E" [] c = "f" -> "F"
      [] OTHER -> c

\* str.upper() / SQL UPPER() on the whole-string texts the model uses
Upper(s) ==
    CASE s = "ba1aa" -> "BA1AA"
      [] s = "20m" -> "20M"
      [] s = "40m" -> "40M"
      [] s = "cw" -> "CW"
      [] OTHER -> s

(******************************* time **************************************)
ValueError == -1

\* datetime.datetime.strptime(s, '%H%M%S') as seconds since midnight:
\* exactly two digits each for hour, minute, second, or ValueError
strptime(s) ==
    IF Len(s) # 6 \/ \E i \in 1..Len(s) : ~IsDigit(s[i]) THEN ValueError
    ELSE LET h == ToInt(SubSeq(s, 1, 2))
             m == ToInt(SubSeq(s, 3, 4))
             sec == ToInt(SubSeq(s, 5, 6))
         IN  IF h <= 23 /\ m <= 59 /\ sec <= 59
             THEN h * 3600 + m * 60 + sec
             ELSE ValueError

\* strptime(time_on.zfill(6), '%H%M%S')
ParseTimeOn(time_on) == strptime(zfill(time_on, TimeWidth))

Abs(x) == IF x < 0 THEN -x ELSE x

time_window == WindowMinutes * 60

(***************************** the store ***********************************)
Db(l, c, k) == [logs |-> l, cards |-> c, links |-> k]

db == Db(logs, cards, links)

\* execute_query: run one statement and commit; on sqlite3.Error roll back and
\* return False.  `effect` is the store after the statement, `ok` whether the
\* statement ran without error.
execute_query(d, effect, ok) == [db |-> IF ok THEN effect ELSE d, ret |-> ok]

\* get_log_details
get_log_details(d, log_id) ==
    IF log_id \in DOMAIN d.logs THEN d.logs[log_id] ELSE NoRow

\* UPDATE logs SET <field> = <v> WHERE id IN ids
SetField(d, ids, field, v) ==
    [d EXCEPT !.logs = [i \in DOMAIN d.logs |->
        IF i \in ids THEN [d.logs[i] EXCEPT ![field] = v] ELSE d.logs[i]]]

status_field(direction) == IF direction = "RC" THEN "qsl_rcvd" ELSE "qsl_sent"

SeqToSet(s) == {s[i] : i \in 1..Len(s)}

CardIds(d) == {c.qsl_id : c \in SeqToSet(d.cards)}

\* DELETE FROM qsl_cards WHERE qsl_id = ?
RECURSIVE WithoutCard(_, _)
WithoutCard(rows, qsl_id) ==
    IF rows = <<>> THEN <<>>
    ELSE IF Head(rows).qsl_id = qsl_id THEN WithoutCard(Tail(rows), qsl_id)
    ELSE <<Head(rows)>> \o WithoutCard(Tail(rows), qsl_id)

\* A fault plan names the statement of a call that raises sqlite3.Error
\* (0: none does).  Statements are numbered in execution order.
NoFault == 0

StmtOk(k, i) == k # i

(*********************** QSL_ID_Generator **********************************)
\* The characters of an id in ASCII order, for SQLite's text comparison
Alphabet == <<"0", "1", "2", "3", "4", "5", "6", "7", "8", "9",
              "A", "B", "C", "D", "E", "F", "M", "R", "T", "W">>

CharCode(c) == CHOOSE i \in 1..Len(Alphabet) : Alphabet[i] = c

\* a < b as text (BINARY collation)
RECURSIVE TextLess(_, _)
TextLess(a, b) ==
    IF b = <<>> THEN FALSE
    ELSE IF a = <<>> THEN TRUE
    ELSE IF a[1] # b[1] THEN CharCode(a[1]) < CharCode(b[1])
    ELSE TextLess(Tail(a), Tail(b))

\* datetime.datetime.now().strftime('%y')
strftime_y(clock) == zfill(Decimal(clock.year % 100), 2)

\* the characters of a direction code
TypeChars(id_type) ==
    CASE id_type = "RC" -> <<"R", "C">>
      [] id_type = "TC" -> <<"T", "C">>
      [] OTHER -> <<id_type>>

\* secrets.token_hex(8): 16 lowercase hexadecimal characters, drawn anew at
\* every call; two of the values a draw can give
HexTokens ==
    { [i \in 1..(2 * TokenBytes) |-> IF i % 2 = 1 THEN "a" ELSE "7"],
      [i \in 1..(2 * TokenBytes) |-> IF i % 2 = 1 THEN "3" ELSE "c"] }

upper(s) == [i \in 1..Len(s) |-> UpperChar(s[i])]

\* int(last_id[2:8])
SerialOf(qsl_id) == ToInt(SubSeq(qsl_id, 3, 2 + SerialWidth))

get_next_serial_any_year(d, id_type, clock) ==
    LET rows == {i \in 1..Len(d.cards) : d.cards[i].direction = id_type}
    IN  IF rows = {} THEN 1
        ELSE SerialOf(d.cards[CHOOSE i \in rows : \A j \in rows : j <= i].qsl_id) + 1

get_next_serial(d, id_type, clock) ==
    LET rows == {i \in 1..Len(d.cards) : d.cards[i].direction = id_type}
    IN  IF rows = {} THEN 1
        ELSE LET last_id_row == d.cards[CHOOSE i \in rows : \A j \in rows : j <= i]
                 last_id == last_id_row.qsl_id
                 last_year == SubSeq(last_id, 1, 2)
                 current_year == strftime_y(clock)
             IN  IF last_year = current_year
                 THEN ToInt(SubSeq(last_id, 3, 2 + SerialWidth)) + 1
                 ELSE 1

generate(d, id_type, clock, random_hex) ==
    IF id_type \notin {"RC", "TC"} THEN Raised
    ELSE strftime_y(clock)
         \o zfill(Decimal(get_next_serial(d, id_type, clock)), SerialWidth)
         \o TypeChars(id_type)
         \o upper(random_hex)

(***************************** card store **********************************)
\* add_qsl_card with every statement committed on its own: a failure keeps
\* the card row and the link rows written before it
add_qsl_card_autocommit(d, qsl_id, log_ids, direction, k) ==
    LET n == Len(log_ids)
        cardOk == StmtOk(k, 1) /\ qsl_id \notin CardIds(d)
        linkOk(i) ==
            /\ StmtOk(k, 1 + i)
            /\ [qsl_id |-> qsl_id, log_id |-> log_ids[i]] \notin d.links
            /\ \A j \in 1..(i - 1) : log_ids[j] # log_ids[i]
        done == {i \in 1..n : \A j \in 1..i : linkOk(j)}
        row == [qsl_id |-> qsl_id, direction |-> direction, status |-> "In Stock"]
        d1 == [d EXCEPT !.cards = Append(@, row)]
        d2 == [d1 EXCEPT !.links =
                  @ \cup {[qsl_id |-> qsl_id, log_id |-> log_ids[i]] : i \in done}]
        d3 == SetField(d2, SeqToSet(log_ids), status_field(direction), "Y")
    IN  IF ~cardOk THEN [db |-> d, ret |-> FALSE, stmts |-> 1]
        ELSE IF done # 1..n
             THEN [db |-> d2, ret |-> FALSE, stmts |-> Cardinality(done) + 2]
        ELSE IF ~StmtOk(k, n + 2) THEN [db |-> d2, ret |-> FALSE, stmts |-> n + 2]
        ELSE [db |-> d3, ret |-> TRUE, stmts |-> n + 2]

\* add_qsl_card: INSERT the card, INSERT one link per log id, UPDATE the flag
\* of the listed contacts, then commit; any sqlite3.Error rolls all of it back.
\* Statement 1 is the card insert, 1+i the i-th link insert, n+2 the update.
\* qsl_cards.qsl_id and (qsl_log_link.qsl_id, log_id) are primary keys: an
\* insert of a stored key raises as a failing statement does.  stmts is the
\* number of statements the call executed, the one that raised included.
add_qsl_card(d, qsl_id, log_ids, direction, k) ==
    LET n == Len(log_ids)
        cardOk == StmtOk(k, 1) /\ qsl_id \notin CardIds(d)
        linkOk(i) ==
            /\ StmtOk(k, 1 + i)
            /\ [qsl_id |-> qsl_id, log_id |-> log_ids[i]] \notin d.links
            /\ \A j \in 1..(i - 1) : log_ids[j] # log_ids[i]
        updateOk == StmtOk(k, n + 2)
        row == [qsl_id |-> qsl_id, direction |-> direction, status |-> "In Stock"]
        d1 == [d EXCEPT !.cards = Append(@, row)]
        d2 == [d1 EXCEPT !.links =
                  @ \cup {[qsl_id |-> qsl_id, log_id |-> log_ids[i]] : i \in 1..n}]
        d3 == SetField(d2, SeqToSet(log_ids), status_field(direction), "Y")
        done == {i \in 1..n : \A j \in 1..i : linkOk(j)}
    IN  IF ~cardOk THEN [db |-> d, ret |-> FALSE, stmts |-> 1]
        ELSE IF done # 1..n
             THEN [db |-> d, ret |-> FALSE, stmts |-> Cardinality(done) + 2]
        ELSE IF ~updateOk THEN [db |-> d, ret |-> FALSE, stmts |-> n + 2]
        ELSE [db |-> d3, ret |-> TRUE, stmts |-> n + 2]

\* the rows of: SELECT q.qsl_id FROM qsl_cards q JOIN qsl_log_link ql
\*              ON q.qsl_id = ql.qsl_id WHERE ql.log_id = ? AND q.direction = ?
CardsOfLog(d, log_id, direction) ==
    {c.qsl_id : c \in {q \in SeqToSet(d.cards) :
        /\ q.direction = direction
        /\ [qsl_id |-> q.qsl_id, log_id |-> log_id] \in d.links}}

\* get_qsl_cards_for_log
get_qsl_cards_for_log(d, log_id) ==
    {q \in SeqToSet(d.cards) :
        [qsl_id |-> q.qsl_id, log_id |-> log_id] \in d.links}

\* recycle_qsl_card deleting the card row without looking for remaining links
\* recycle_qsl_card without its first statement: the flag stays Y
recycle_qsl_card_keep_flag(d, log_id, direction, qsl_id_row, k) ==
    IF qsl_id_row = NoRow THEN [db |-> d, ret |-> FALSE]
    ELSE LET qsl_id == qsl_id_row.qsl_id
             s2 == execute_query(d,
                     [d EXCEPT !.links =
                         @ \ {[qsl_id |-> qsl_id, log_id |-> log_id]}],
                     StmtOk(k, 2))
             is_linked_elsewhere == \E l \in s2.db.links : l.qsl_id = qsl_id
             s3 == IF ~is_linked_elsewhere
                   THEN execute_query(s2.db,
                          [s2.db EXCEPT !.cards = WithoutCard(@, qsl_id)],
                          StmtOk(k, 3))
                   ELSE s2
         IN  [db |-> s3.db, ret |-> TRUE]

recycle_qsl_card_drop_card(d, log_id, direction, qsl_id_row, k) ==
    IF qsl_id_row = NoRow THEN [db |-> d, ret |-> FALSE]
    ELSE LET qsl_id == qsl_id_row.qsl_id
             s1 == execute_query(d,
                     SetField(d, {log_id}, status_field(direction), "N"),
                     StmtOk(k, 1))
             s2 == execute_query(s1.db,
                     [s1.db EXCEPT !.links =
                         @ \ {[qsl_id |-> qsl_id, log_id |-> log_id]}],
                     StmtOk(k, 2))
             s3 == execute_query(s2.db,
                     [s2.db EXCEPT !.cards = WithoutCard(@, qsl_id)],
                     StmtOk(k, 3))
         IN  [db |-> s3.db, ret |-> TRUE]

\* recycle_qsl_card; qsl_id_row is the row fetch_one returned (NoRow: none).
\* Statement 1 clears the flag, 2 deletes the link, 3 deletes the card; each is
\* an execute_query of its own whose result the method does not look at.
recycle_qsl_card(d, log_id, direction, qsl_id_row, k) ==
    IF qsl_id_row = NoRow THEN [db |-> d, ret |-> FALSE]
    ELSE LET qsl_id == qsl_id_row.qsl_id
             s1 == execute_query(d,
                     SetField(d, {log_id}, status_field(direction), "N"),
                     StmtOk(k, 1))
             s2 == execute_query(s1.db,
                     [s1.db EXCEPT !.links =
                         @ \ {[qsl_id |-> qsl_id, log_id |-> log_id]}],
                     StmtOk(k, 2))
             is_linked_elsewhere == \E l \in s2.db.links : l.qsl_id = qsl_id
             s3 == IF ~is_linked_elsewhere
                   THEN execute_query(s2.db,
                          [s2.db EXCEPT !.cards = WithoutCard(@, qsl_id)],
                          StmtOk(k, 3))
                   ELSE s2
         IN  [db |-> s3.db, ret |-> TRUE]

\* the statements recycle_qsl_card executes: none without a row, and no card
\* delete while another contact is linked to the card
RecycleStatements(d, log_id, qsl_id_row) ==
    IF qsl_id_row = NoRow THEN 0
    ELSE IF \E l \in d.links : l.qsl_id = qsl_id_row.qsl_id /\ l.log_id # log_id
         THEN 2
    ELSE 3

\* what fetch_one may return for recycle_qsl_card's SELECT
RecycleRows(d, log_id, direction) ==
    IF CardsOfLog(d, log_id, direction) = {} THEN {NoRow}
    ELSE {[qsl_id |-> q] : q \in CardsOfLog(d, log_id, direction)}

\* reset_all_qsl_data whose UPDATE clears qsl_sent only
reset_all_qsl_data_sent_only(d, k) ==
    LET s1 == execute_query(d, [d EXCEPT !.links = {}], StmtOk(k, 1))
        s2 == execute_query(s1.db, [s1.db EXCEPT !.cards = <<>>], StmtOk(k, 2))
        s3 == execute_query(s2.db,
                [s2.db EXCEPT !.logs = [i \in DOMAIN @ |->
                    [@[i] EXCEPT !.qsl_sent = "N"]]],
                StmtOk(k, 3))
    IN  [db |-> s3.db, ret |-> TRUE]

\* reset_all_qsl_data: three execute_query calls, results not looked at;
\* execute_query swallows sqlite3.Error, so the except branch is never taken.
reset_all_qsl_data(d, k) ==
    LET s1 == execute_query(d, [d EXCEPT !.links = {}], StmtOk(k, 1))
        s2 == execute_query(s1.db, [s1.db EXCEPT !.cards = <<>>], StmtOk(k, 2))
        s3 == execute_query(s2.db,
                [s2.db EXCEPT !.logs = [i \in DOMAIN @ |->
                    [@[i] EXCEPT !.qsl_sent = "N", !.qsl_rcvd = "N"]]],
                StmtOk(k, 3))
    IN  [db |-> s3.db, ret |-> TRUE]

\* delete_log whose first DELETE has no WHERE clause
delete_log_all_links(d, log_id, k) ==
    LET s1 == execute_query(d, [d EXCEPT !.links = {}], StmtOk(k, 1))
        s2 == execute_query(s1.db,
                [s1.db EXCEPT !.logs = [i \in DOMAIN @ \ {log_id} |-> @[i]]],
                StmtOk(k, 2))
    IN  [db |-> s2.db, ret |-> s2.ret]

\* delete_log without its first DELETE: the contact's links stay
delete_log_keep_links(d, log_id, k) ==
    LET s2 == execute_query(d,
                [d EXCEPT !.logs = [i \in DOMAIN @ \ {log_id} |-> @[i]]],
                StmtOk(k, 2))
    IN  [db |-> s2.db, ret |-> s2.ret]

\* delete_log: delete the contact's links, then the contact; returns the
\* second execute_query's result
delete_log(d, log_id, k) ==
    LET s1 == execute_query(d,
                [d EXCEPT !.links = {l \in @ : l.log_id # log_id}],
                StmtOk(k, 1))
        s2 == execute_query(s1.db,
                [s1.db EXCEPT !.logs = [i \in DOMAIN @ \ {log_id} |-> @[i]]],
                StmtOk(k, 2))
    IN  [db |-> s2.db, ret |-> s2.ret]

(**************************** contact store ********************************)
NoId == 0      \* log_exists / add_log_entry returning None

\* the columns of a logs row other than id and adif_blob (adif_blob is
\* written by add_log_entry and update_log_entry and read by no statement
\* and no handler).  freq and freq_rx are REAL columns: a number is the text
\* of its digits, and the dialog's empty field is stored as ''.
DataKeys == {"sort_id", "my_callsign", "station_callsign", "qso_date", "time_on",
             "band", "band_rx", "freq", "freq_rx", "mode", "submode",
             "rst_sent", "rst_rcvd", "comment", "qsl_sent", "qsl_rcvd",
             "sat_name", "prop_mode"}

\* the columns update_log_entry's UPDATE sets
UpdateKeys == {"station_callsign", "qso_date", "time_on", "band", "band_rx",
               "freq", "freq_rx", "mode", "rst_sent", "rst_rcvd", "comment",
               "submode", "sat_name", "prop_mode"}

\* the row INSERT INTO logs creates: sort_id NULL, flags at their default 'N'
NewRow(log_data) ==
    [sort_id |-> NoSortId, my_callsign |-> log_data.my_callsign,
     station_callsign |-> log_data.station_callsign,
     qso_date |-> log_data.qso_date, time_on |-> log_data.time_on,
     band |-> log_data.band, band_rx |-> log_data.band_rx,
     freq |-> log_data.freq, freq_rx |-> log_data.freq_rx,
     mode |-> log_data.mode, submode |-> log_data.submode,
     rst_sent |-> log_data.rst_sent, rst_rcvd |-> log_data.rst_rcvd,
     comment |-> log_data.comment, qsl_sent |-> "N", qsl_rcvd |-> "N",
     sat_name |-> log_data.sat_name, prop_mode |-> log_data.prop_mode]

\* the rowid SQLite gives a new row of an INTEGER PRIMARY KEY table
NextRowId(d) ==
    IF DOMAIN d.logs = {} THEN 1
    ELSE 1 + CHOOSE m \in DOMAIN d.logs : \A i \in DOMAIN d.logs : i <= m

\* add_log_entry: statement 1 inserts the row, statement 2 sets sort_id = id
\* (its result is not looked at); returns the new id, or None
add_log_entry(d, log_data, k) ==
    LET log_id == NextRowId(d)
        s1 == execute_query(d,
                [d EXCEPT !.logs = [i \in DOMAIN @ \cup {log_id} |->
                    IF i = log_id THEN NewRow(log_data) ELSE @[i]]],
                StmtOk(k, 1))
        s2 == execute_query(s1.db,
                [s1.db EXCEPT !.logs[log_id].sort_id = log_id],
                StmtOk(k, 2))
    IN  IF s1.ret THEN [db |-> s2.db, ret |-> log_id]
        ELSE [db |-> d, ret |-> NoId]

\* update_log_entry writing the whole row anew: flags and sort_id at their
\* defaults
update_log_entry_whole_row(d, log_id, log_data, k) ==
    execute_query(d,
        [d EXCEPT !.logs = [i \in DOMAIN @ |->
            IF i = log_id
            THEN [NewRow(log_data) EXCEPT !.my_callsign = d.logs[i].my_callsign]
            ELSE @[i]]],
        StmtOk(k, 1))

\* update_log_entry: one UPDATE ... WHERE id = log_id; a WHERE that matches
\* no row is not an error
update_log_entry(d, log_id, log_data, k) ==
    execute_query(d,
        [d EXCEPT !.logs = [i \in DOMAIN @ |->
            IF i = log_id
            THEN [key \in DOMAIN @[i] |->
                    IF key \in UpdateKeys THEN log_data[key] ELSE @[i][key]]
            ELSE @[i]]],
        StmtOk(k, 1))

\* param or "" in Python
OrEmpty(v) == IF v = NULL THEN "" ELSE v

\* UPPER(column) = ? in SQL: never true of a NULL column
UpperEq(column, param) == column # NULL /\ Upper(column) = param

\* WHERE UPPER(station_callsign)=? AND qso_date=? AND UPPER(band)=? AND UPPER(mode)=?
KeyMatches(d, station_callsign, qso_date, band, mode) ==
    {i \in DOMAIN d.logs :
        /\ UpperEq(d.logs[i].station_callsign, Upper(station_callsign))
        /\ d.logs[i].qso_date = qso_date
        /\ UpperEq(d.logs[i].band, Upper(OrEmpty(band)))
        /\ UpperEq(d.logs[i].mode, Upper(OrEmpty(mode)))}

\* log_exists: the first key match (in rowid order) whose parsed time is within
\* time_window of the parsed new time; rows whose time does not parse are skipped
log_exists(d, station_callsign, qso_date, time_on, band, mode) ==
    LET potential_duplicates == KeyMatches(d, station_callsign, qso_date, band, mode)
        new_qso_time_obj == ParseTimeOn(time_on)
        hits == {i \in potential_duplicates :
                    LET existing_time_obj == ParseTimeOn(d.logs[i].time_on)
                    IN  /\ existing_time_obj # ValueError
                        /\ Abs(new_qso_time_obj - existing_time_obj) <= time_window}
    IN  IF potential_duplicates = {} THEN NoId
        ELSE IF new_qso_time_obj = ValueError THEN NoId
        ELSE IF hits = {} THEN NoId
        ELSE CHOOSE i \in hits : \A j \in hits : i <= j

(************************* duplicate reconciler ****************************)
\* sorted(list(ids)) for a set of integers
RECURSIVE SortedIds(_)
SortedIds(S) ==
    IF S = {} THEN <<>>
    ELSE LET m == CHOOSE x \in S : \A y \in S : x <= y
         IN  <<m>> \o SortedIds(S \ {m})

\* the ids of S under ORDER BY time_on (text order; equal texts in rowid order)
RECURSIVE OrderByTimeOn(_, _)
OrderByTimeOn(d, S) ==
    IF S = {} THEN <<>>
    ELSE LET m == CHOOSE x \in S : \A y \in S \ {x} :
                    \/ TextLess(d.logs[x].time_on, d.logs[y].time_on)
                    \/ (d.logs[x].time_on = d.logs[y].time_on /\ x < y)
         IN  <<m>> \o OrderByTimeOn(d, S \ {m})

\* the value GROUP BY UPPER(column) groups a row under (NULLs group together)
GroupValue(v) == IF v = NULL THEN NULL ELSE Upper(v)

GroupKey(row) == <<GroupValue(row.station_callsign), row.qso_date,
                   GroupValue(row.band), GroupValue(row.mode)>>

\* the groups of GROUP BY ... HAVING COUNT(id) > 1, each as its set of ids
CandidateGroups(d) ==
    {g \in {{j \in DOMAIN d.logs : GroupKey(d.logs[j]) = GroupKey(d.logs[i])} :
                i \in DOMAIN d.logs} : Cardinality(g) > 1}

\* the inner loops of find_all_duplicates over one ordered group: the clusters
\* seeded at positions i..Len(group), given the positions already absorbed
RECURSIVE SeedClusters(_, _, _, _)
SeedClusters(d, group, i, visited_indices) ==
    IF i > Len(group) THEN <<>>
    ELSE IF i \in visited_indices
         THEN SeedClusters(d, group, i + 1, visited_indices)
    ELSE LET time_i == ParseTimeOn(d.logs[group[i]].time_on)
             absorbed == {j \in (i + 1)..Len(group) :
                            /\ j \notin visited_indices
                            /\ time_i # ValueError
                            /\ ParseTimeOn(d.logs[group[j]].time_on) # ValueError
                            /\ Abs(ParseTimeOn(d.logs[group[j]].time_on) - time_i)
                                  <= time_window}
             current_set == {group[i]} \cup {group[j] : j \in absorbed}
             rest == SeedClusters(d, group, i + 1, visited_indices \cup absorbed)
         IN  IF Cardinality(current_set) > 1 THEN <<current_set>> \o rest ELSE rest

\* the rows the per-group SELECT returns for a candidate group: the key of one
\* of the group's rows, upper-cased, with None replaced by ""
GroupRows(d, g) ==
    LET rep == d.logs[CHOOSE i \in g : TRUE]
    IN  OrderByTimeOn(d, KeyMatches(d, rep.station_callsign, rep.qso_date,
                                     rep.band, rep.mode))

\* the characters of the upper-cased key texts
KeyChars(v) ==
    CASE v = "BA1AA" -> <<"B", "A", "1", "A", "A">>
      [] v = "20M" -> <<"2", "0", "M">>
      [] v = "40M" -> <<"4", "0", "M">>
      [] v = "CW" -> <<"C", "W">>
      [] v = "20240101" -> <<"2", "0", "2", "4", "0", "1", "0", "1">>
      [] v = "20240102" -> <<"2", "0", "2", "4", "0", "1", "0", "2">>
      [] v = "" -> <<>>

\* a < b in the sorter of GROUP BY: NULL before every text, texts in BINARY
\* collation
ValueLess(a, b) ==
    IF a = NULL THEN b # NULL
    ELSE b # NULL /\ TextLess(KeyChars(a), KeyChars(b))

\* one group key before another: the GROUP BY terms compared left to right
RECURSIVE KeyLess(_, _)
KeyLess(k1, k2) ==
    IF k1 = <<>> THEN FALSE
    ELSE IF Head(k1) # Head(k2) THEN ValueLess(Head(k1), Head(k2))
    ELSE KeyLess(Tail(k1), Tail(k2))

\* the loop over candidate_groups, which SQLite returns in the order of the
\* GROUP BY key
RECURSIVE ClustersOfGroups(_, _)
ClustersOfGroups(d, groups) ==
    IF groups = {} THEN <<>>
    ELSE LET g == CHOOSE x \in groups : \A y \in groups \ {x} :
                    KeyLess(GroupKey(d.logs[CHOOSE i \in x : TRUE]),
                            GroupKey(d.logs[CHOOSE i \in y : TRUE]))
             logs_in_group == GroupRows(d, g)
         IN  (IF Len(logs_in_group) < 2 THEN <<>>
              ELSE SeedClusters(d, logs_in_group, 1, {}))
             \o ClustersOfGroups(d, groups \ {g})

\* find_all_duplicates: the list of duplicate sets
find_all_duplicates(d) == ClustersOfGroups(d, CandidateGroups(d))

\* Python truthiness of the value of column `key`
Truthy(key, v) ==
    IF key = "sort_id" THEN v # NoSortId
    ELSE IF key \in {"time_on", "comment"} THEN v # <<>>
    ELSE v # NULL /\ v # ""

\* a in b for two strings
IsSubstring(a, b) ==
    \E i \in 0..(Len(b) - Len(a)) : SubSeq(b, i + 1, i + Len(a)) = a

\* s.strip(" | "): drop leading and trailing blanks and bars
RECURSIVE strip(_)
strip(s) ==
    IF s = <<>> THEN s
    ELSE IF s[1] \in {" ", "|"} THEN strip(Tail(s))
    ELSE IF s[Len(s)] \in {" ", "|"} THEN strip(SubSeq(s, 1, Len(s) - 1))
    ELSE s

MergedTag == <<" ", "|", " ", "M", "E", "R", "G", "E", "D", ":", " ">>

\* one pass of check_for_duplicates' loop body: fold one duplicate row into
\* the in-memory master row; needs_update is what this pass leaves it at
FoldDuplicate(master_log_data, duplicate_log_data) ==
    LET copied == [key \in DOMAIN master_log_data |->
                     IF /\ Truthy(key, duplicate_log_data[key])
                        /\ ~Truthy(key, master_log_data[key])
                     THEN duplicate_log_data[key]
                     ELSE master_log_data[key]]
        new_comment == duplicate_log_data.comment
        old_comment == copied.comment
        append == new_comment # <<>> /\ ~IsSubstring(new_comment, old_comment)
        folded == IF append
                  THEN [copied EXCEPT !.comment =
                          strip(old_comment \o MergedTag \o new_comment)]
                  ELSE copied
    IN  [data |-> folded,
         needs_update |-> (copied # master_log_data) \/ append]

\* the loop over log_ids[1:]: needs_update is assigned at the top of every
\* pass over a row that exists, so after the loop it is the last such
\* pass's, or, when no row was left, what it was before the loop
RECURSIVE FoldCluster(_, _, _, _)
FoldCluster(d, log_ids, i, acc) ==
    IF i > Len(log_ids) THEN acc
    ELSE LET row == get_log_details(d, log_ids[i])
         IN  IF row = NoRow THEN FoldCluster(d, log_ids, i + 1, acc)
             ELSE LET f == FoldDuplicate(acc.data, row)
                  IN  FoldCluster(d, log_ids, i + 1,
                        [data |-> f.data, needs_update |-> f.needs_update,
                         logs_to_delete |-> Append(acc.logs_to_delete, log_ids[i])])

\* delete_log for each id of a list; fault plan k counts statements from 1
RECURSIVE DeleteAll(_, _, _)
DeleteAll(d, ids, k) ==
    IF ids = <<>> THEN d
    ELSE DeleteAll(delete_log(d, Head(ids), k).db, Tail(ids),
                   IF k = NoFault \/ k <= 2 THEN NoFault ELSE k - 2)

\* one pass of check_for_duplicates' outer loop: merge one duplicate set.
\* needs_update is the handler's local as the passes before left it (the
\* outer loop never assigns it).  Statement 1 is the master's UPDATE when
\* needs_update (its result is not looked at), then two statements per
\* deleted duplicate.
MergeCluster(d, duplicate_set, needs_update, k) ==
    LET log_ids == SortedIds(duplicate_set)
        master_log_id == log_ids[1]
        folded == FoldCluster(d, log_ids, 2,
                    [data |-> d.logs[master_log_id], needs_update |-> needs_update,
                     logs_to_delete |-> <<>>])
        updated == IF folded.needs_update
                   THEN update_log_entry(d, master_log_id, folded.data, k).db
                   ELSE d
        kd == IF ~folded.needs_update THEN k
              ELSE IF k = NoFault \/ k = 1 THEN NoFault ELSE k - 1
    IN  [db |-> DeleteAll(updated, folded.logs_to_delete, kd),
         needs_update |-> folded.needs_update,
         logs_to_delete |-> folded.logs_to_delete]

\* the statements MergeCluster executes
MergeStatements(d, duplicate_set, needs_update) ==
    LET r == MergeCluster(d, duplicate_set, needs_update, NoFault)
    IN  (IF r.needs_update THEN 1 ELSE 0) + 2 * Len(r.logs_to_delete)

\* the loop over duplicate_sets: merge every duplicate set in turn,
\* needs_update going from one set to the next
RECURSIVE MergeAll(_, _, _, _)
MergeAll(d, duplicate_sets, needs_update, k) ==
    IF duplicate_sets = <<>> THEN d
    ELSE LET n == MergeStatements(d, Head(duplicate_sets), needs_update)
             r == MergeCluster(d, Head(duplicate_sets), needs_update,
                               IF k <= n THEN k ELSE NoFault)
         IN  MergeAll(r.db, Tail(duplicate_sets), r.needs_update,
                      IF k = NoFault \/ k <= n THEN NoFault ELSE k - n)

\* the statements MergeAll executes
RECURSIVE AllMergeStatements(_, _, _)
AllMergeStatements(d, duplicate_sets, needs_update) ==
    IF duplicate_sets = <<>> THEN 0
    ELSE LET r == MergeCluster(d, Head(duplicate_sets), needs_update, NoFault)
         IN  MergeStatements(d, Head(duplicate_sets), needs_update)
             + AllMergeStatements(r.db, Tail(duplicate_sets), r.needs_update)

\* check_for_duplicates: scan once, then merge the sets found.  The rows of
\* the first set were read by the scan just before, so its first pass
\* assigns needs_update before the handler reads it.
check_for_duplicates(d, k) == MergeAll(d, find_all_duplicates(d), FALSE, k)

(******************************* import ************************************)
ImportedTag == <<" ", "|", " ", "I", "M", "P", "O", "R", "T", "E", "D", ":", " ">>

\* on_import_clicked, a record that log_exists found: fold the incoming
\* record into the stored row, first non-empty value wins, a new comment is
\* appended
ImportFold(existing_log, new_log_data) ==
    LET copied == [key \in DOMAIN existing_log |->
                     IF /\ key \in DOMAIN new_log_data
                        /\ Truthy(key, new_log_data[key])
                        /\ ~Truthy(key, existing_log[key])
                     THEN new_log_data[key]
                     ELSE existing_log[key]]
        new_comment == new_log_data.comment
        old_comment == copied.comment
        append == new_comment # <<>> /\ ~IsSubstring(new_comment, old_comment)
        merged_data == IF append
                       THEN [copied EXCEPT !.comment =
                               strip(old_comment \o ImportedTag \o new_comment)]
                       ELSE copied
    IN  [data |-> merged_data,
         needs_update |-> (copied # existing_log) \/ append]

\* on_import_clicked's loop body for one record that has CALL, QSO_DATE,
\* TIME_ON and BAND: update the contact log_exists finds, else insert
import_qso(d, qso, k) ==
    LET existing_log_id == log_exists(d, qso.station_callsign, qso.qso_date,
                                      qso.time_on, qso.band, qso.mode)
    IN  IF existing_log_id # NoId
        THEN LET f == ImportFold(get_log_details(d, existing_log_id), qso)
             IN  [db |-> IF f.needs_update
                         THEN update_log_entry(d, existing_log_id, f.data, k).db
                         ELSE d,
                  found |-> existing_log_id, ret |-> NoId]
        ELSE LET r == add_log_entry(d, qso, k)
             IN  [db |-> r.db, found |-> NoId, ret |-> r.ret]

(****************************** reorder ************************************)
\* the characters of a qso_date text
DateChars(qso_date) ==
    CASE qso_date = "20240101" -> <<"2", "0", "2", "4", "0", "1", "0", "1">>
      [] qso_date = "20240102" -> <<"2", "0", "2", "4", "0", "1", "0", "2">>

\* the ids of S under ORDER BY qso_date, time_on (text order; rows equal in
\* both come in rowid order, as the table scan delivers them to the sorter)
RECURSIVE OrderByDateTime(_, _)
OrderByDateTime(d, S) ==
    IF S = {} THEN <<>>
    ELSE LET before(x, y) ==
                 \/ TextLess(DateChars(d.logs[x].qso_date),
                             DateChars(d.logs[y].qso_date))
                 \/ /\ d.logs[x].qso_date = d.logs[y].qso_date
                    /\ TextLess(d.logs[x].time_on, d.logs[y].time_on)
                 \/ /\ d.logs[x].qso_date = d.logs[y].qso_date
                    /\ d.logs[x].time_on = d.logs[y].time_on
                    /\ x < y
             m == CHOOSE x \in S : \A y \in S \ {x} : before(x, y)
         IN  <<m>> \o OrderByDateTime(d, S \ {m})

\* the loop of reorder_logs_by_time from position new_index + 1 = i on: one
\* UPDATE per row, each committed by execute_query, its result not looked at
RECURSIVE Renumber(_, _, _, _)
Renumber(d, order, i, k) ==
    IF i > Len(order) THEN d
    ELSE Renumber(execute_query(d, [d EXCEPT !.logs[order[i]].sort_id = i],
                                StmtOk(k, i)).db,
                  order, i + 1, k)

\* reorder_logs_by_time with ORDER BY time_on alone
reorder_logs_by_time_only(d, k) ==
    [db |-> Renumber(d, OrderByTimeOn(d, DOMAIN d.logs), 1, k), ret |-> TRUE]

\* reorder_logs_by_time: execute_query swallows sqlite3.Error, so the except
\* branch is never taken and the result is always True
reorder_logs_by_time(d, k) ==
    [db |-> Renumber(d, OrderByDateTime(d, DOMAIN d.logs), 1, k), ret |-> TRUE]

(******************************* inputs ************************************)
T1200 == <<"1", "2", "0", "0">>
T1204 == <<"1", "2", "0", "4">>
T1800 == <<"1", "8", "0", "0">>
T1155 == <<"1", "1", "5", "5">>
T1205 == <<"1", "2", "0", "5">>
T1206 == <<"1", "2", "0", "6">>
T1208 == <<"1", "2", "0", "8">>
T120000 == <<"1", "2", "0", "0", "0", "0">>
T120400 == <<"1", "2", "0", "4", "0", "0">>
T120500 == <<"1", "2", "0", "5", "0", "0">>
T120501 == <<"1", "2", "0", "5", "0", "1">>
T120800 == <<"1", "2", "0", "8", "0", "0">>

\* what LogDetailDialog.get_data hands over: three entries of one station on
\* one day, band and mode; the second lies within the window of the first.
\* The fields left empty are '', sat_name, prop_mode and submode are None.
DialogInput(time_on, rst_sent, comment) ==
    [my_callsign |-> "BH2VSQ", station_callsign |-> "BA1AA",
     qso_date |-> "20240101", time_on |-> time_on, band |-> "20m",
     band_rx |-> "", freq |-> "", freq_rx |-> "",
     mode |-> "CW", submode |-> NULL,
     rst_sent |-> rst_sent, rst_rcvd |-> "", comment |-> comment,
     sat_name |-> NULL, prop_mode |-> NULL]

DialogInputs ==
    { DialogInput(T1200, "", <<>>),
      DialogInput(T1204, "59", <<"a">>),
      DialogInput(T1800, "59", <<"b">>) }

\* the dialog's data where a statement may fail: two entries outside each
\* other's window
FaultInputs ==
    { DialogInput(T1200, "", <<>>),
      DialogInput(T1800, "59", <<"b">>) }

\* what an ADIF record hands over (on_import_clicked passes CALL, TIME_ON and
\* BAND as the file has them): one station on one day and mode, the callsign
\* in either case, the time as HHMM or HHMMSS around 12:00
\* The fields the file has not are None (qso.get).
ImportInput(station_callsign, time_on, band) ==
    [my_callsign |-> "BH2VSQ", station_callsign |-> station_callsign,
     qso_date |-> "20240101", time_on |-> time_on, band |-> band,
     band_rx |-> NULL, freq |-> NULL, freq_rx |-> NULL,
     mode |-> "CW", submode |-> NULL,
     rst_sent |-> NULL, rst_rcvd |-> NULL, comment |-> <<>>,
     sat_name |-> NULL, prop_mode |-> NULL]

ImportTimes == {T1155, T1200, T1204, T1205, T1206, T120000, T120500, T120501}

StoredInputs ==
    {ImportInput(c, t, "20m") : c \in {"BA1AA", "ba1aa"}, t \in ImportTimes}

\* what LogDetailDialog.get_data hands over when the operator types the time
\* (a free text field) as HHMM or HHMMSS: the callsign is upper-cased
ManualInputs ==
    {[DialogInput(t, "", <<>>) EXCEPT !.band = b] :
        t \in ImportTimes, b \in {"20m", "40m"}}

ProbeInputs ==
    {ImportInput(c, t, b) : c \in {"BA1AA", "ba1aa"}, t \in ImportTimes,
                            b \in {"20m", "40m"}}

\* records of one key as imports and edits leave them: my_callsign is ""
\* when the import ran before a primary callsign was configured
MergeInput(my_callsign, time_on, rst_sent, comment) ==
    [DialogInput(time_on, rst_sent, comment) EXCEPT !.my_callsign = my_callsign]

MergeInputs ==
    UNION {{ MergeInput("BH2VSQ", t, "", <<>>),
             MergeInput("", t, "59", <<"a">>),
             MergeInput("BH2VSQ", t, "59", <<"a", "b">>),
             MergeInput("BH2VSQ", t, "57", <<"b">>),
             [MergeInput("BH2VSQ", t, "59", <<"a">>) EXCEPT !.freq = "14.05"],
             [MergeInput("BH2VSQ", t, "", <<>>) EXCEPT !.rst_rcvd = "57"] } :
           t \in {T120000, T120400, T120800}}

\* an ADIF record without MODE as on_import_clicked stores it: mode is None
ModelessImport(time_on) ==
    [ImportInput("BA1AA", time_on, "20m") EXCEPT !.mode = NULL]

\* records of one key saved from the dialog with the empty entry of
\* MODES_LIST as mode (the entry the dialog shows for a stored None)
BlankModeInputs ==
    {[m EXCEPT !.mode = ""] : m \in {x \in MergeInputs : x.time_on # T120800}}

\* records of one key on two days, the time as HHMM or HHMMSS
ReorderInputs ==
    {[DialogInput(t, "59", <<>>) EXCEPT !.qso_date = day] :
        day \in {"20240101", "20240102"}, t \in {T1155, T1200, T120000, T120400}}

\* the records add_log_entry stored before a scan.  As imports leave them:
\* one station and day, the time as HHMM or HHMMSS, one with the callsign in
\* lower case, one on another band, one without MODE; and as the dialog
\* leaves them: the empty entry of MODES_LIST as mode
ScanInputs ==
    {ImportInput("BA1AA", t, "20m") : t \in {T1200, T1204, T1208, T120000, T120800}}
    \cup {ImportInput("ba1aa", T1200, "20m"), ImportInput("BA1AA", T1200, "40m"),
          ModelessImport(T1200)}
    \cup {[DialogInput(t, "", <<>>) EXCEPT !.mode = ""] : t \in {T1200, T1204}}

\* the records of an ADIF file: CALL, QSO_DATE, TIME_ON and BAND present,
\* MODE and COMMENT present or absent
ImportQsos ==
    {[ImportInput(c, t, "20m") EXCEPT !.mode = mode, !.comment = comment] :
        c \in {"BA1AA", "ba1aa"}, t \in {T1200, T120000, T1800},
        mode \in {"CW", NULL}, comment \in {<<>>, <<"a">>}}

\* the fault plans of a call of n statements
FaultPlans(faulty, n) ==
    IF faulty /\ faults < MaxFaults THEN 0..n ELSE {NoFault}

\* the statement fault plan k names has raised
Inject(k) == faults' = IF k = NoFault THEN faults ELSE faults + 1

\* the orders in which the table (ORDER BY sort_id DESC) can list the rows S
TableOrders(d, S) ==
    {o \in [1..Cardinality(S) -> S] :
        /\ \A i, j \in 1..Cardinality(S) : i # j => o[i] # o[j]
        /\ \A i, j \in 1..Cardinality(S) :
              i < j => d.logs[o[i]].sort_id >= d.logs[o[j]].sort_id}

(************************** batch issuance *********************************)
\* process_qsl_cards' filter without the flag test: every checked id that exists
RECURSIVE log_ids_to_process_unfiltered(_, _, _)
log_ids_to_process_unfiltered(d, checked, direction) ==
    IF checked = <<>> THEN <<>>
    ELSE LET log_details == get_log_details(d, Head(checked))
             rest == log_ids_to_process_unfiltered(d, Tail(checked), direction)
         IN  IF log_details = NoRow THEN rest
             ELSE <<Head(checked)>> \o rest

\* process_qsl_cards' filter: the checked ids that exist and are not yet
\* flagged for the direction, in table order
RECURSIVE log_ids_to_process(_, _, _)
log_ids_to_process(d, checked, direction) ==
    IF checked = <<>> THEN <<>>
    ELSE LET log_details == get_log_details(d, Head(checked))
             rest == log_ids_to_process(d, Tail(checked), direction)
         IN  IF log_details = NoRow THEN rest
             ELSE IF direction = "TC" /\ log_details.qsl_sent = "Y" THEN rest
             ELSE IF direction = "RC" /\ log_details.qsl_rcvd = "Y" THEN rest
             ELSE <<Head(checked)>> \o rest

\* run_print_job taking the per-contact branch whatever the mode
Groups_per_contact(log_ids, mode) ==
    [i \in 1..Len(log_ids) |-> <<log_ids[i]>>]

\* the add_qsl_card calls of run_print_job: one for the whole list (single)
\* or one per log id (multi)
Groups(log_ids, mode) ==
    IF mode = "single" THEN <<log_ids>>
    ELSE [i \in 1..Len(log_ids) |-> <<log_ids[i]>>]

\* run_print_job's calls from the i-th on, up to the next wait: generate an
\* id from the store and the clock as they are then, add the card; a card
\* that was added is handed to print_function, which ends in a modal message
\* box, so the calls go on at once only after a call that failed.  tokens[i]
\* is the i-th token_hex result; fault plan k counts the statements these
\* calls execute from 1 (a call ends at its first statement that raises).  `next` is the call to go on with after the box, `stmts`
\* the statements the calls stand for.
RECURSIVE RunAdds(_, _, _, _, _, _, _)
RunAdds(d, groups, i, direction, clock, tokens, k) ==
    IF i > Len(groups) THEN [db |-> d, adds |-> <<>>, next |-> i, stmts |-> 0]
    ELSE LET qsl_id == generate(d, direction, clock, tokens[i])
             r == add_qsl_card(d, qsl_id, groups[i], direction, k)
             n == r.stmts
             call == [qsl_id |-> qsl_id, log_ids |-> groups[i], ret |-> r.ret]
             rest == RunAdds(r.db, groups, i + 1, direction, clock, tokens,
                             IF k = NoFault \/ k <= n THEN NoFault ELSE k - n)
         IN  IF r.ret
             THEN [db |-> r.db, adds |-> <<call>>, next |-> i + 1, stmts |-> n]
             ELSE [db |-> rest.db, adds |-> <<call>> \o rest.adds,
                   next |-> rest.next, stmts |-> n + rest.stmts]

\* run_print_job from its i-th add_qsl_card call up to the next wait
run_print_job(d, log_ids, direction, mode, i, clock, tokens, k) ==
    RunAdds(d, Groups(log_ids, mode), i, direction, clock, tokens, k)

(******************************* actions ***********************************)
Store(d) == logs' = d.logs /\ cards' = d.cards /\ links' = d.links

\* MainWindow.on_new_log_clicked with the dialog's data drawn from `inputs`:
\* refuse a duplicate, else insert
NewLogWith(inputs, faulty) ==
    /\ ~job.pending
    /\ \E log_data \in inputs, k \in FaultPlans(faulty, 2) :
           LET found == log_exists(db, log_data.station_callsign, log_data.qso_date,
                                   log_data.time_on, log_data.band, log_data.mode)
               r == add_log_entry(db, log_data, k)
           IN  /\ NextRowId(db) <= MaxLogId
               /\ IF found # NoId
                  THEN /\ k = NoFault
                       /\ UNCHANGED <<logs, cards, links>>
                       /\ last' = [op |-> "new_log", found |-> found, ret |-> NoId,
                                   fault |-> NoFault]
                  ELSE /\ Store(r.db)
                       /\ last' = [op |-> "new_log", found |-> NoId, ret |-> r.ret,
                                   fault |-> k]
               /\ Inject(IF found # NoId THEN NoFault ELSE k)
               /\ UNCHANGED <<now, issued, job>>

NewLog(faulty) == NewLogWith(DialogInputs, faulty)

\* LogManagementWidget.edit_selected_log: update_log_entry with the dialog's
\* data drawn from `inputs`
EditLogWith(inputs, faulty) ==
    /\ ~job.pending
    /\ \E log_id \in DOMAIN logs, log_data \in inputs, k \in FaultPlans(faulty, 1) :
           LET r == update_log_entry(db, log_id, log_data, k)
           IN  /\ Store(r.db)
               /\ last' = [op |-> "update", log_id |-> log_id, ret |-> r.ret,
                           fault |-> k]
               /\ Inject(k)
               /\ UNCHANGED <<now, issued, job>>

EditLog(faulty) == EditLogWith(DialogInputs, faulty)

\* LogManagementWidget.delete_selected_logs: delete_log for every checked row
DeleteSelected(faulty) ==
    /\ ~job.pending
    /\ \E S \in SUBSET (DOMAIN logs) \ {{}} :
           \E log_ids \in TableOrders(db, S), k \in FaultPlans(faulty, 2 * Cardinality(S)) :
               /\ Store(DeleteAll(db, log_ids, k))
               /\ last' = [op |-> "delete", log_ids |-> S, fault |-> k]
               /\ Inject(k)
               /\ UNCHANGED <<now, issued, job>>

\* the ids of the add_qsl_card calls that succeeded, in call order
RECURSIVE IssuedIds(_)
IssuedIds(adds) ==
    IF adds = <<>> THEN <<>>
    ELSE (IF Head(adds).ret THEN <<Head(adds).qsl_id>> ELSE <<>>)
         \o IssuedIds(Tail(adds))

\* the job after a step of run_print_job: waiting for the operator with
\* calls left, or over
JobAfter(log_ids, direction, mode, adds, next) ==
    IF next > Len(Groups(log_ids, mode)) THEN NoJob
    ELSE [pending |-> TRUE, log_ids |-> log_ids, direction |-> direction,
          mode |-> mode, adds |-> adds, next |-> next]

\* LogManagementWidget.process_qsl_cards and run_print_job, both dialogs
\* accepted, up to the first wait in print_function's message box or, with
\* no call left, to the end; `tracked` says whether the history of issued
\* ids is kept
ProcessQslCardsTracked(faulty, tracked) ==
    /\ ~job.pending
    /\ \E S \in SUBSET (DOMAIN logs) \ {{}}, direction \in Directions,
          choice \in {"single", "multi"} :
           \E checked \in TableOrders(db, S) :
               LET log_ids == log_ids_to_process(db, checked, direction)
                   mode == IF Len(log_ids) > 1 THEN choice ELSE "multi"
                   calls == Len(Groups(log_ids, mode))
               IN  IF log_ids = <<>>
                   THEN /\ choice = "multi"
                        /\ UNCHANGED <<logs, cards, links, now, faults, issued, job>>
                        /\ last' = [op |-> "issue", direction |-> direction,
                                    mode |-> mode, skipped |-> S,
                                    log_ids |-> log_ids, adds |-> <<>>,
                                    fault |-> NoFault]
                   ELSE /\ Len(log_ids) > 1 \/ choice = "multi"
                        /\ now.t + calls <= MaxClock
                        /\ \E tokens \in [1..calls -> HexTokens],
                              k \in FaultPlans(faulty, Len(log_ids) + 2 * calls) :
                               LET r == run_print_job(db, log_ids, direction, mode,
                                                      1, now, tokens, k)
                               IN  /\ k <= r.stmts
                                   /\ Store(r.db)
                                   /\ Inject(k)
                                   /\ now' = [now EXCEPT !.t = @ + Len(r.adds)]
                                   /\ issued' = IF tracked
                                                THEN issued \o IssuedIds(r.adds)
                                                ELSE issued
                                   /\ job' = JobAfter(log_ids, direction, mode,
                                                      r.adds, r.next)
                                   /\ last' = [op |-> "issue", direction |-> direction,
                                               mode |-> mode,
                                               skipped |-> S \ SeqToSet(log_ids),
                                               log_ids |-> log_ids, adds |-> r.adds,
                                               fault |-> k]

\* run_print_job going on after the operator closed print_function's message
\* box: the calls from job.next up to the next wait or the end
ResumePrintJobTracked(faulty, tracked) ==
    /\ job.pending
    /\ LET calls == Len(Groups(job.log_ids, job.mode))
       IN  \E tokens \in [1..calls -> HexTokens],
              k \in FaultPlans(faulty, 3 * (calls - job.next + 1)) :
               LET r == run_print_job(db, job.log_ids, job.direction, job.mode,
                                      job.next, now, tokens, k)
               IN  /\ k <= r.stmts
                   /\ Store(r.db)
                   /\ Inject(k)
                   /\ now' = [now EXCEPT !.t = @ + Len(r.adds)]
                   /\ issued' = IF tracked
                                THEN issued \o IssuedIds(r.adds)
                                ELSE issued
                   /\ job' = JobAfter(job.log_ids, job.direction, job.mode,
                                      job.adds \o r.adds, r.next)
                   /\ last' = [op |-> "issue_next", direction |-> job.direction,
                               mode |-> job.mode, log_ids |-> job.log_ids,
                               adds |-> r.adds, fault |-> k]

ResumePrintJob(faulty) == ResumePrintJobTracked(faulty, FALSE)

ProcessQslCards(faulty) == ProcessQslCardsTracked(faulty, FALSE)

\* LogManagementWidget.recycle_selected_card -> recycle_qsl_card
Recycle(faulty) ==
    /\ ~job.pending
    /\ \E log_id \in DOMAIN logs, direction \in Directions :
           \E qsl_id_row \in RecycleRows(db, log_id, direction),
              k \in FaultPlans(faulty, 3) :
               LET r == recycle_qsl_card(db, log_id, direction, qsl_id_row, k)
               IN  /\ k <= RecycleStatements(db, log_id, qsl_id_row)
                   /\ Store(r.db)
                   /\ Inject(k)
                   /\ last' = [op |-> "recycle", log_id |-> log_id,
                               direction |-> direction, qsl_id_row |-> qsl_id_row,
                               ret |-> r.ret, fault |-> k]
                   /\ UNCHANGED <<now, issued, job>>

\* SettingsDialog's reset button -> reset_all_qsl_data
ResetAll(faulty) ==
    /\ ~job.pending
    /\ \E k \in FaultPlans(faulty, 3) :
           LET r == reset_all_qsl_data(db, k)
           IN  /\ Store(r.db)
               /\ last' = [op |-> "reset_all", ret |-> r.ret, fault |-> k]
               /\ Inject(k)
               /\ UNCHANGED <<now, issued, job>>

\* LogManagementWidget.check_for_duplicates
CheckForDuplicates(faulty) ==
    /\ ~job.pending
    /\ LET duplicate_sets == find_all_duplicates(db)
       IN  \E k \in FaultPlans(faulty, 2 * Cardinality(DOMAIN logs) + 1) :
               /\ duplicate_sets # <<>>
               /\ k <= AllMergeStatements(db, duplicate_sets, FALSE)
               /\ Store(check_for_duplicates(db, k))
               /\ Inject(k)
               /\ last' = [op |-> "merge", duplicate_sets |-> duplicate_sets,
                           fault |-> k]
               /\ UNCHANGED <<now, issued, job>>

\* LogManagementWidget.reorder_logs, confirmed -> reorder_logs_by_time
ReorderLogs(faulty) ==
    /\ ~job.pending
    /\ \E k \in FaultPlans(faulty, Cardinality(DOMAIN logs)) :
           LET r == reorder_logs_by_time(db, k)
           IN  /\ Store(r.db)
               /\ Inject(k)
               /\ last' = [op |-> "reorder", ret |-> r.ret, fault |-> k]
               /\ UNCHANGED <<now, issued, job>>

\* the calendar year changes
NewYear ==
    /\ now.year < FirstYear + MaxYears
    /\ now' = [now EXCEPT !.year = @ + 1]
    /\ last' = [op |-> "new_year"]
    /\ UNCHANGED <<logs, cards, links, faults, issued, job>>

Init ==
    /\ logs = <<>>
    /\ cards = <<>>
    /\ links = {}
    /\ now = [year |-> FirstYear, t |-> 0]
    /\ faults = 0
    /\ issued = <<>>
    /\ job = NoJob
    /\ last = [op |-> "init"]

\* every storage statement succeeds unless a key constraint refuses it
Next ==
    \/ NewLog(FALSE)
    \/ EditLog(FALSE)
    \/ DeleteSelected(FALSE)
    \/ ProcessQslCards(FALSE)
    \/ ResumePrintJob(FALSE)
    \/ Recycle(FALSE)
    \/ ResetAll(FALSE)
    \/ CheckForDuplicates(FALSE)

Spec == Init /\ [][Next]_vars

\* any one storage statement of a handler may raise sqlite3.Error
NextFault ==
    \/ NewLogWith(FaultInputs, TRUE)
    \/ EditLogWith(FaultInputs, TRUE)
    \/ DeleteSelected(TRUE)
    \/ ProcessQslCards(TRUE)
    \/ ResumePrintJob(TRUE)
    \/ Recycle(TRUE)
    \/ ResetAll(TRUE)
    \/ CheckForDuplicates(TRUE)

SpecFault == Init /\ [][NextFault]_vars

\* DatabaseManager.log_exists called with one record's key and time
LogExists ==
    /\ ~job.pending
    /\ \E q \in ProbeInputs :
           /\ last' = [op |-> "log_exists", log_data |-> q,
                       ret |-> log_exists(db, q.station_callsign, q.qso_date,
                                          q.time_on, q.band, q.mode)]
           /\ UNCHANGED <<logs, cards, links, now, faults, issued, job>>

\* the stored table is one add_log_entry builds from 1..MaxLogId of the
\* stored inputs
InitDedup ==
    /\ \E n \in 1..MaxLogId : \E f \in [1..n -> StoredInputs] :
          logs = [i \in 1..n |-> [NewRow(f[i]) EXCEPT !.sort_id = i]]
    /\ cards = <<>>
    /\ links = {}
    /\ now = [year |-> FirstYear, t |-> 0]
    /\ faults = 0
    /\ issued = <<>>
    /\ job = NoJob
    /\ last = [op |-> "init"]

NextDedup == LogExists

\* log_exists applied to every stored table and probe of the bounded inputs
SpecDedup == InitDedup /\ [][NextDedup]_vars

\* the logs tables add_log_entry builds from 1..MaxMergeLogs of the records,
\* or from two imports without MODE and 2..MaxMergeLogs records of blank mode
InitMerge ==
    /\ \/ \E n \in 1..MaxMergeLogs : \E f \in [1..n -> MergeInputs] :
             logs = [i \in 1..n |-> [NewRow(f[i]) EXCEPT !.sort_id = i]]
       \/ \E n \in 2..MaxMergeLogs : \E f \in [1..n -> BlankModeInputs] :
             logs = [i \in 1..(n + 2) |->
                        [NewRow(IF i <= 2 THEN ModelessImport(T120000) ELSE f[i - 2])
                            EXCEPT !.sort_id = i]]
    /\ cards = <<>>
    /\ links = {}
    /\ now = [year |-> FirstYear, t |-> 0]
    /\ faults = 0
    /\ issued = <<>>
    /\ job = NoJob
    /\ last = [op |-> "init"]

NextMerge == CheckForDuplicates(FALSE)

\* scan-and-merge passes over every stored table of the bounded records
SpecMerge == InitMerge /\ [][NextMerge]_vars

NextMergeFault == CheckForDuplicates(TRUE)

\* the same, where one storage statement of a pass may raise sqlite3.Error
SpecMergeFault == InitMerge /\ [][NextMergeFault]_vars

\* two contacts of one station, hours apart
SerialStore ==
    <<[NewRow(DialogInput(T1200, "59", <<>>)) EXCEPT !.sort_id = 1],
      [NewRow(DialogInput(T1800, "59", <<>>)) EXCEPT !.sort_id = 2]>>

InitSerial ==
    /\ logs = SerialStore
    /\ cards = <<>>
    /\ links = {}
    /\ now = [year |-> FirstYear, t |-> 0]
    /\ faults = 0
    /\ issued = <<>>
    /\ job = NoJob
    /\ last = [op |-> "init"]

NextSerial ==
    \/ ProcessQslCardsTracked(FALSE, TRUE)
    \/ ResumePrintJobTracked(FALSE, TRUE)
    \/ Recycle(FALSE)
    \/ ResetAll(FALSE)
    \/ DeleteSelected(FALSE)
    \/ NewYear

\* issuing, recycling, resetting and deleting over the years, with the
\* history of the issued ids kept
SpecSerial == InitSerial /\ [][NextSerial]_vars

\* the direction codes a caller may hand to the generator and the card store
ApiDirections == Directions \cup {"XX"}

\* the greatest serial the serial field of an id holds
LastSerial == ToInt([i \in 1..SerialWidth |-> "9"])

\* an id as generate builds it, for a card issued earlier
StoredId(year, serial, id_type) ==
    strftime_y([year |-> year]) \o zfill(Decimal(serial), SerialWidth)
        \o TypeChars(id_type) \o upper(CHOOSE h \in HexTokens : TRUE)

\* the two contacts alone, or with one card issued to contact 1 this year or
\* the year before
CardStores ==
    {Db(SerialStore, <<>>, {})} \cup
    {add_qsl_card(Db(SerialStore, <<>>, {}), StoredId(y, n, t), <<1>>, t, NoFault).db :
        y \in {FirstYear - 1, FirstYear}, n \in {1, LastSerial - 1, LastSerial}, t \in Directions}

\* QSL_ID_Generator.generate called with a direction code
Generate ==
    /\ ~job.pending
    /\ \E id_type \in ApiDirections, random_hex \in HexTokens :
           /\ last' = [op |-> "generate", direction |-> id_type,
                       ret |-> generate(db, id_type, now, random_hex)]
           /\ UNCHANGED <<logs, cards, links, now, faults, issued, job>>

\* DatabaseManager.add_qsl_card called with a generated id, one contact and a
\* direction code
AddQslCard ==
    /\ ~job.pending
    /\ \E id_type \in Directions, direction \in ApiDirections,
          log_id \in DOMAIN logs, random_hex \in HexTokens :
           LET qsl_id == generate(db, id_type, now, random_hex)
               r == add_qsl_card(db, qsl_id, <<log_id>>, direction, NoFault)
           IN  /\ direction \in Directions => direction = id_type
               /\ now.t < MaxClock
               /\ now' = [now EXCEPT !.t = @ + 1]
               /\ Store(r.db)
               /\ last' = [op |-> "add_qsl_card", direction |-> direction,
                           ret |-> r.ret]
               /\ UNCHANGED <<faults, issued, job>>

\* DatabaseManager.recycle_qsl_card called with a contact and a direction code
RecycleQslCard ==
    /\ ~job.pending
    /\ \E log_id \in DOMAIN logs, direction \in ApiDirections :
           \E qsl_id_row \in RecycleRows(db, log_id, direction) :
               LET r == recycle_qsl_card(db, log_id, direction, qsl_id_row, NoFault)
               IN  /\ Store(r.db)
                   /\ last' = [op |-> "recycle_qsl_card", direction |-> direction,
                               ret |-> r.ret]
                   /\ UNCHANGED <<now, faults, issued, job>>

InitCards ==
    /\ \E d \in CardStores : logs = d.logs /\ cards = d.cards /\ links = d.links
    /\ now = [year |-> FirstYear, t |-> 0]
    /\ faults = 0
    /\ issued = <<>>
    /\ job = NoJob
    /\ last = [op |-> "init"]

NextCards ==
    \/ Generate
    \/ AddQslCard
    \/ RecycleQslCard

\* the generator and the card store called directly, with any direction code
SpecCards == InitCards /\ [][NextCards]_vars

\* three contacts of one station, hours apart, without cards, or, for a
\* direction, with the card that was issued under the serial get_next_serial
\* reads once serial LastSerial + 1 was issued (contact 1) and the latest
\* card, issued under serial LastSerial + 1 (contact 2), the cards between
\* them recycled
IssueStores ==
    LET store == Db(Append(SerialStore,
                      [NewRow(DialogInput(T120000, "59", <<>>)) EXCEPT !.sort_id = 3]),
                    <<>>, {})
        wrapped == SerialOf(StoredId(FirstYear, LastSerial + 1, "TC")) + 1
    IN  {store} \cup
        {add_qsl_card(
            add_qsl_card(store, StoredId(FirstYear, wrapped, t), <<1>>, t, NoFault).db,
            StoredId(FirstYear, LastSerial + 1, t), <<2>>, t, NoFault).db :
         t \in Directions}

InitIssue ==
    /\ \E d \in IssueStores : logs = d.logs /\ cards = d.cards /\ links = d.links
    /\ now = [year |-> FirstYear, t |-> 0]
    /\ faults = 0
    /\ issued = <<>>
    /\ job = NoJob
    /\ last = [op |-> "init"]

NextIssue ==
    \/ ProcessQslCards(TRUE)
    \/ ResumePrintJob(TRUE)
    \/ ResetAll(TRUE)

\* issuing and resetting over stores in which the generator may
\* build the id of a stored card, one storage statement being allowed to
\* raise sqlite3.Error
SpecIssue == InitIssue /\ [][NextIssue]_vars

\* DatabaseManager.update_log_entry called with an id and a dialog's data
UpdateLogEntry ==
    /\ ~job.pending
    /\ \E log_id \in 1..(Len(SerialStore) + 1), log_data \in DialogInputs :
           LET r == update_log_entry(db, log_id, log_data, NoFault)
           IN  /\ Store(r.db)
               /\ last' = [op |-> "update_log_entry", log_id |-> log_id,
                           log_data |-> log_data, ret |-> r.ret]
               /\ UNCHANGED <<now, faults, issued, job>>

\* DatabaseManager.delete_log called with an id
DeleteLog ==
    /\ ~job.pending
    /\ \E log_id \in 1..(Len(SerialStore) + 1) :
           LET r == delete_log(db, log_id, NoFault)
           IN  /\ Store(r.db)
               /\ last' = [op |-> "delete_log", log_id |-> log_id, ret |-> r.ret]
               /\ UNCHANGED <<now, faults, issued, job>>

NextStore ==
    \/ UpdateLogEntry
    \/ DeleteLog
    \/ AddQslCard

\* the contact store called directly, with ids that are stored or not
SpecStore == InitSerial /\ [][NextStore]_vars

\* DatabaseManager.find_all_duplicates called on the stored table
FindAllDuplicates ==
    /\ ~job.pending
    /\ /\ last' = [op |-> "find_all_duplicates", ret |-> find_all_duplicates(db)]
       /\ UNCHANGED <<logs, cards, links, now, faults, issued, job>>

\* the stored table is one add_log_entry builds from 1..MaxScanLogs of the
\* scan records
InitScan ==
    /\ \E n \in 1..MaxScanLogs : \E f \in [1..n -> ScanInputs] :
          logs = [i \in 1..n |-> [NewRow(f[i]) EXCEPT !.sort_id = i]]
    /\ cards = <<>>
    /\ links = {}
    /\ now = [year |-> FirstYear, t |-> 0]
    /\ faults = 0
    /\ issued = <<>>
    /\ job = NoJob
    /\ last = [op |-> "init"]

NextScan == FindAllDuplicates

\* the duplicate scan applied to every stored table of the bounded records
SpecScan == InitScan /\ [][NextScan]_vars

InitCycle ==
    /\ logs \in {SerialStore, SubSeq(SerialStore, 1, 1)}
    /\ cards = <<>>
    /\ links = {}
    /\ now = [year |-> FirstYear, t |-> 0]
    /\ faults = 0
    /\ issued = <<>>
    /\ job = NoJob
    /\ last = [op |-> "init"]

NextCycle ==
    \/ ProcessQslCardsTracked(FALSE, TRUE)
    \/ ResumePrintJobTracked(FALSE, TRUE)
    \/ Recycle(FALSE)

\* issuing and recycling for one or two contacts, with the history of the
\* issued ids kept
SpecCycle == InitCycle /\ [][NextCycle]_vars

NextSort ==
    \/ NewLogWith(ReorderInputs, FALSE)
    \/ DeleteSelected(FALSE)
    \/ ReorderLogs(FALSE)

\* adding, deleting and reordering contacts, from the empty store
SpecSort == Init /\ [][NextSort]_vars

\* MainWindow.on_import_clicked for a file of one record
ImportQso ==
    /\ ~job.pending
    /\ \E qso \in ImportQsos :
           LET r == import_qso(db, qso, NoFault)
           IN  /\ r.found = NoId => NextRowId(db) <= MaxLogId
               /\ Store(r.db)
               /\ last' = [op |-> "import", qso |-> qso, found |-> r.found,
                           ret |-> r.ret]
               /\ UNCHANGED <<now, faults, issued, job>>

NextImport == ImportQso

\* imports of one record at a time, from the empty store
SpecImport == Init /\ [][NextImport]_vars

NextFrame ==
    \/ ProcessQslCards(FALSE)
    \/ ResumePrintJob(FALSE)
    \/ EditLog(FALSE)
    \/ ReorderLogs(FALSE)

\* two contacts that get cards, are edited and are reordered
SpecFrame == InitSerial /\ [][NextFrame]_vars

\* the stored table is one add_log_entry builds from 1..MaxMergeLogs of the
\* reorder records
InitReorder ==
    /\ \E n \in 1..MaxMergeLogs : \E f \in [1..n -> ReorderInputs] :
          logs = [i \in 1..n |-> [NewRow(f[i]) EXCEPT !.sort_id = i]]
    /\ cards = <<>>
    /\ links = {}
    /\ now = [year |-> FirstYear, t |-> 0]
    /\ faults = 0
    /\ issued = <<>>
    /\ job = NoJob
    /\ last = [op |-> "init"]

NextReorder ==
    \/ ReorderLogs(FALSE)
    \/ DeleteSelected(FALSE)

\* reordering and deleting over every stored table of the bounded records
SpecReorder == InitReorder /\ [][NextReorder]_vars

NextReorderFault ==
    \/ ReorderLogs(TRUE)
    \/ DeleteSelected(FALSE)

\* the same, where one UPDATE of a reorder may raise sqlite3.Error
SpecReorderFault == InitReorder /\ [][NextReorderFault]_vars

NextAdds == NewLogWith(ManualInputs, FALSE)

\* manual adds only, from the empty store
SpecAdds == Init /\ [][NextAdds]_vars

(***************************** properties **********************************)
\* the rows of table `rows` whose id is qsl_id, as positions
CardRows(rows, qsl_id) == {i \in 1..Len(rows) : rows[i].qsl_id = qsl_id}

LinksOfCard(ls, qsl_id) == {l \in ls : l.qsl_id = qsl_id}

\* the add_qsl_card calls of the job recorded in history record h that
\* reported success
AddsOf(h) == {h.adds[i] : i \in {j \in 1..Len(h.adds) : h.adds[j].ret}}

FailedAddsOf(h) == {h.adds[i] : i \in {j \in 1..Len(h.adds) : ~h.adds[j].ret}}

\* the steps of a batch issuance: up to the first wait, and each resumption
IssueOps == {"issue", "issue_next"}

\* C1: add_qsl_card is all-or-nothing.  Over every batch issuance step: a
\* failing statement makes a call report failure; a call that reported
\* failure added no card row and no link row and changed no row of its
\* contacts, so a card that already had the id keeps its links; a call that
\* reported success added its card row under an id no card had, one link per
\* given contact and the Y flag on every given contact; the tables grew by
\* exactly the rows of the successful calls.
C1_AddAllOrNothing ==
    [][last'.op \in IssueOps =>
        /\ last'.fault # NoFault => FailedAddsOf(last') # {}
        /\ \A a \in AddsOf(last') :
              /\ CardRows(cards, a.qsl_id) = {}
              /\ Cardinality(CardRows(cards', a.qsl_id)) = 1
              /\ \A i \in 1..Len(a.log_ids) :
                    logs'[a.log_ids[i]] =
                        [logs[a.log_ids[i]] EXCEPT ![status_field(last'.direction)] = "Y"]
        /\ \A a \in FailedAddsOf(last') :
              /\ \A i \in 1..Len(a.log_ids) : logs'[a.log_ids[i]] = logs[a.log_ids[i]]
              /\ (\A b \in AddsOf(last') : b.qsl_id # a.qsl_id) =>
                    /\ Cardinality(CardRows(cards', a.qsl_id))
                          = Cardinality(CardRows(cards, a.qsl_id))
                    /\ LinksOfCard(links', a.qsl_id) = LinksOfCard(links, a.qsl_id)
        /\ links' = links \cup UNION {{[qsl_id |-> a.qsl_id, log_id |-> a.log_ids[i]] :
                                        i \in 1..Len(a.log_ids)} : a \in AddsOf(last')}
        /\ Len(cards') = Len(cards) + Cardinality({i \in 1..Len(last'.adds) :
                                                     last'.adds[i].ret})
        /\ SubSeq(cards', 1, Len(cards)) = cards
        /\ AddsOf(last') = {} => UNCHANGED <<logs, cards, links>>
    ]_vars

\* C1 witness: an add_qsl_card call of a batch issuance failed on its card
\* insert, no statement made to fail, because a stored card that has links
\* already had the id
C1_Witness ==
    /\ last.op \in IssueOps
    /\ last.fault = NoFault
    /\ \E a \in FailedAddsOf(last) :
          /\ CardRows(cards, a.qsl_id) # {}
          /\ LinksOfCard(links, a.qsl_id) # {}

\* C2: a contact is flagged Y for a direction only if a card row of that
\* direction linked to it exists, in every committed state, any one storage
\* statement of a handler being allowed to fail.
C2_FlagImpliesCard ==
    \A i \in DOMAIN logs :
        /\ logs[i].qsl_sent = "Y" => CardsOfLog(db, i, "TC") # {}
        /\ logs[i].qsl_rcvd = "Y" => CardsOfLog(db, i, "RC") # {}

\* a contact's flag for a direction
FlagOf(row, direction) == row[status_field(direction)]

\* C3: every contact is linked to at most one RC card and at most one TC
\* card after every step, and a batch issuance passes over every checked
\* contact already flagged Y for the direction: the contacts it issues for
\* were not flagged, and the ones it skipped keep the links they had.
C3_AtMostOneCardPerDirection ==
    [][/\ \A i \in DOMAIN logs', direction \in Directions :
              Cardinality(CardsOfLog(db', i, direction)) <= 1
       /\ last'.op = "issue" =>
            /\ \A i \in last'.skipped :
                  /\ FlagOf(logs[i], last'.direction) = "Y"
                  /\ {l \in links' : l.log_id = i} = {l \in links : l.log_id = i}
            /\ \A n \in 1..Len(last'.log_ids) :
                  FlagOf(logs[last'.log_ids[n]], last'.direction) # "Y"
       /\ last'.op \in IssueOps =>
            \A n \in 1..Len(last'.adds) : \A i \in SeqToSet(last'.adds[n].log_ids) :
                FlagOf(logs[i], last'.direction) # "Y"
    ]_vars

\* C3 witness: a batch in which one checked contact, already flagged and
\* linked, was skipped while another got its card
C3_Witness ==
    /\ last.op = "issue"
    /\ last.log_ids # <<>>
    /\ \E i \in last.skipped : CardsOfLog(db, i, last.direction) # {}
    /\ \A a \in FailedAddsOf(last) : FALSE

\* C4: every card row has at least one link in every reachable state, so a
\* card linked only to a deleted or merged-away contact goes with it.
C4_NoCardWithoutLink ==
    \A i \in 1..Len(cards) : LinksOfCard(links, cards[i].qsl_id) # {}

\* C5: a batch issuance for contacts not flagged for the direction creates,
\* in single mode, exactly one card to which every contact of the batch is
\* linked, and in multi mode one card per contact, each contact linked to
\* its own card and the ids pairwise distinct; every contact of the batch is
\* flagged Y for the direction.
C5_SingleAndMultiIssue ==
    [][(last'.op \in IssueOps /\ last'.log_ids # <<>> /\ ~job'.pending) =>
        LET batch == last'.log_ids
            adds == (IF job.pending THEN job.adds ELSE <<>>) \o last'.adds
            direction == last'.direction
        IN  /\ \A n \in 1..Len(adds) : adds[n].ret
            /\ \A n \in 1..Len(batch) : FlagOf(logs'[batch[n]], direction) = "Y"
            /\ IF last'.mode = "single"
               THEN /\ Len(adds) = 1
                    /\ Len(cards') = Len(cards) + 1
                    /\ cards'[Len(cards')].qsl_id = adds[1].qsl_id
                    /\ \A n \in 1..Len(batch) :
                          CardsOfLog(db', batch[n], direction) = {adds[1].qsl_id}
               ELSE /\ Len(adds) = Len(batch)
                    /\ Len(cards') = Len(cards) + Len(last'.adds)
                    /\ \A n \in 1..Len(batch) :
                          /\ cards'[Len(cards') - Len(batch) + n].qsl_id
                                = adds[n].qsl_id
                          /\ CardsOfLog(db', batch[n], direction) = {adds[n].qsl_id}
                    /\ \A m, n \in 1..Len(batch) :
                          m # n => adds[m].qsl_id # adds[n].qsl_id
    ]_vars

\* C5 witness: a multi mode batch of two contacts has ended, each contact
\* with its own card
C5_Witness ==
    /\ last.op = "issue_next"
    /\ ~job.pending
    /\ last.mode = "multi"
    /\ Len(last.log_ids) = 2
    /\ CardsOfLog(db, last.log_ids[1], last.direction) # {}
    /\ CardsOfLog(db, last.log_ids[2], last.direction) # {}
    /\ CardsOfLog(db, last.log_ids[1], last.direction)
          # CardsOfLog(db, last.log_ids[2], last.direction)

\* the rows of a table other than those of card qsl_id, in order
OtherCards(rows, qsl_id) == SelectSeq(rows, LAMBDA c : c.qsl_id # qsl_id)

\* C6: recycling a contact linked to a card of the direction sets that
\* contact's flag for the direction to N and removes exactly that link; the
\* card row is removed if and only if no link to it remains; every other
\* card, link and contact is unchanged.
C6_RecycleOneLink ==
    [][(last'.op = "recycle" /\ last'.qsl_id_row # NoRow) =>
        LET qsl_id == last'.qsl_id_row.qsl_id
            link == [qsl_id |-> qsl_id, log_id |-> last'.log_id]
        IN  /\ link \in links
            /\ links' = links \ {link}
            /\ DOMAIN logs' = DOMAIN logs
            /\ logs'[last'.log_id] =
                  [logs[last'.log_id] EXCEPT ![status_field(last'.direction)] = "N"]
            /\ \A i \in DOMAIN logs \ {last'.log_id} : logs'[i] = logs[i]
            /\ CardRows(cards', qsl_id) = {} <=> LinksOfCard(links', qsl_id) = {}
            /\ OtherCards(cards', qsl_id) = OtherCards(cards, qsl_id)
            /\ CardRows(cards', qsl_id) # {} => cards' = cards
    ]_vars

\* C6 witness: a recycle that left the card in place for another contact
C6_Witness ==
    /\ last.op = "recycle"
    /\ last.qsl_id_row # NoRow
    /\ LinksOfCard(links, last.qsl_id_row.qsl_id) # {}
    /\ CardRows(cards, last.qsl_id_row.qsl_id) # {}

\* C7: recycle reports success only when the flag reset, the link deletion
\* and, for a last link, the card deletion have all taken effect; with no
\* card of the direction, or with a failing statement, it reports failure
\* and the committed state is the state before the call.
C7_RecycleReportsFailure ==
    [][last'.op = "recycle" =>
        IF last'.qsl_id_row = NoRow \/ last'.fault # NoFault
        THEN ~last'.ret /\ UNCHANGED <<logs, cards, links>>
        ELSE LET qsl_id == last'.qsl_id_row.qsl_id
             IN  /\ last'.ret
                 /\ FlagOf(logs'[last'.log_id], last'.direction) = "N"
                 /\ [qsl_id |-> qsl_id, log_id |-> last'.log_id] \notin links'
                 /\ LinksOfCard(links', qsl_id) = {} => CardRows(cards', qsl_id) = {}
    ]_vars

\* C8: after a successful reset_all there is no card row and no link row and
\* every contact has both flags N, the set of contacts and their other
\* columns being unchanged.
C8_ResetAllClears ==
    [][(last'.op = "reset_all" /\ last'.ret) =>
        /\ cards' = <<>>
        /\ links' = {}
        /\ DOMAIN logs' = DOMAIN logs
        /\ \A i \in DOMAIN logs :
              logs'[i] = [logs[i] EXCEPT !.qsl_sent = "N", !.qsl_rcvd = "N"]
    ]_vars

\* C8 witness: reset_all has run on a store in which cards had been issued
\* in both clock readings, and contacts are still there
C8_Witness ==
    /\ last.op = "reset_all"
    /\ last.ret
    /\ now.t = MaxClock
    /\ DOMAIN logs # {}
    /\ cards = <<>>

\* C9: reset_all is atomic: when one of its statements fails the state is
\* unchanged and it reports failure; otherwise the whole reset has happened.
C9_ResetAllAtomic ==
    [][last'.op = "reset_all" =>
        IF last'.fault # NoFault
        THEN ~last'.ret /\ UNCHANGED <<logs, cards, links>>
        ELSE /\ last'.ret
             /\ cards' = <<>>
             /\ links' = {}
             /\ \A i \in DOMAIN logs' :
                   logs'[i].qsl_sent = "N" /\ logs'[i].qsl_rcvd = "N"
    ]_vars

\* the clock time a text written HHMM or HHMMSS denotes, in seconds
ClockTime(time_on) ==
    ToInt(SubSeq(time_on, 1, 2)) * 3600 + ToInt(SubSeq(time_on, 3, 4)) * 60
        + (IF Len(time_on) > 4 THEN ToInt(SubSeq(time_on, 5, Len(time_on))) ELSE 0)

\* callsign, band and mode equal case-insensitively, date equal
SameKey(row, q) ==
    /\ Upper(row.station_callsign) = Upper(q.station_callsign)
    /\ row.qso_date = q.qso_date
    /\ Upper(row.band) = Upper(q.band)
    /\ Upper(row.mode) = Upper(q.mode)

\* C10: log_exists returns the id of a stored contact of the same key whose
\* clock time (HHMM or HHMMSS) is at most 5 minutes from the given one, and
\* nothing when every contact of the key is further away: against a stored
\* 1200 the times 1204 and 1205 match and 1206 does not.
C10_FiveMinuteWindow ==
    last.op = "log_exists" =>
        LET q == last.log_data
            near == {i \in DOMAIN logs :
                        /\ SameKey(logs[i], q)
                        /\ Abs(ClockTime(logs[i].time_on) - ClockTime(q.time_on))
                              <= WindowMinutes * 60}
        IN  IF near = {} THEN last.ret = NoId ELSE last.ret \in near

\* C11: after any sequence of manual adds from the empty store no two stored
\* contacts have the same case-insensitive (callsign, date, band, mode) and
\* clock times (HHMM or HHMMSS) within 5 minutes of each other: the add that
\* would create such a pair is refused and stores nothing.
C11_NoNearPairAfterAdds ==
    \A i, j \in DOMAIN logs :
        i # j /\ SameKey(logs[i], logs[j])
            => Abs(ClockTime(logs[i].time_on) - ClockTime(logs[j].time_on))
                  > WindowMinutes * 60

\* the clusters of two records a merge pass worked on
PairsOf(l) == {c \in SeqToSet(l.duplicate_sets) : Cardinality(c) = 2}

Canonical(c) == CHOOSE m \in c : \A x \in c : m <= x

Duplicate(c) == CHOOSE m \in c : \A x \in c : x <= m

\* the record the field policy asks for, given canonical and duplicate
PolicyRow(canonical, duplicate) ==
    [key \in DOMAIN canonical |->
        IF key = "comment"
        THEN IF /\ duplicate.comment # <<>>
                /\ ~IsSubstring(duplicate.comment, canonical.comment)
             THEN canonical.comment \o MergedTag \o duplicate.comment
             ELSE canonical.comment
        ELSE IF Truthy(key, canonical[key]) THEN canonical[key]
             ELSE duplicate[key]]

\* C12: merging a cluster of a canonical record and one duplicate stores in
\* the canonical record the comment "<canonical> | MERGED: <duplicate>" when
\* the duplicate's comment is non-empty and not a substring of the
\* canonical's (else the canonical's own), and for every other field the
\* duplicate's value when the canonical's was empty, else the canonical's.
C12_MergeFieldPolicy ==
    [][ last'.op = "merge" =>
          \A c \in PairsOf(last') :
              /\ Canonical(c) \in DOMAIN logs'
              /\ logs'[Canonical(c)] = PolicyRow(logs[Canonical(c)], logs[Duplicate(c)])
    ]_vars

\* the duplicate sets of a pass whose UPDATE of the folded canonical record
\* is the statement fault plan k names
RECURSIVE UpdateFailed(_, _, _, _)
UpdateFailed(d, duplicate_sets, needs_update, k) ==
    IF duplicate_sets = <<>> \/ k = NoFault THEN {}
    ELSE LET c == Head(duplicate_sets)
             n == MergeStatements(d, c, needs_update)
             r == MergeCluster(d, c, needs_update, NoFault)
         IN  IF k <= n
             THEN (IF r.needs_update /\ r.logs_to_delete # <<>> /\ k = 1
                   THEN {c} ELSE {})
             ELSE UpdateFailed(r.db, Tail(duplicate_sets), r.needs_update, k - n)

\* C13: merging is atomic per cluster: when the UPDATE that persists the
\* folded canonical record fails, no member of that cluster is deleted and
\* its records are unchanged, while the other clusters of the batch are
\* still merged (their non-canonical members are deleted).
C13_MergeAtomicPerCluster ==
    [][ last'.op = "merge" =>
          LET failed == UpdateFailed(db, last'.duplicate_sets, FALSE, last'.fault)
          IN  \A c \in SeqToSet(last'.duplicate_sets) :
                  IF c \in failed
                  THEN \A i \in c : i \in DOMAIN logs' /\ logs'[i] = logs[i]
                  ELSE failed # {} =>
                          \A i \in c \ {Canonical(c)} : i \notin DOMAIN logs'
    ]_vars

\* C14: merge is idempotent: right after a scan-and-merge pass a second scan
\* finds no duplicate set, so a second pass merges nothing and leaves every
\* stored contact unchanged.
C14_MergeIdempotent ==
    last.op = "merge" => find_all_duplicates(db) = <<>>

\* the direction code and the year digits an id carries
DirectionOf(qsl_id) == SubSeq(qsl_id, 3 + SerialWidth, 4 + SerialWidth)

YearOf(qsl_id) == SubSeq(qsl_id, 1, 2)

\* C15: of any two cards of the same direction issued in the same year, the
\* one issued later has the strictly greater serial, whatever recycle,
\* delete or reset operations happened in between.
C15_SerialIncreasing ==
    \A i, j \in 1..Len(issued) :
        /\ i < j
        /\ DirectionOf(issued[i]) = DirectionOf(issued[j])
        /\ YearOf(issued[i]) = YearOf(issued[j])
        => SerialOf(issued[i]) < SerialOf(issued[j])

\* C16: the first card of a direction issued after the two-digit year has
\* changed gets serial 1, whatever cards of that direction from earlier
\* years, and whatever cards of the other direction, are stored.
C16_SerialRestartsEachYear ==
    \A j \in 1..Len(issued) :
        /\ YearOf(issued[j]) # strftime_y([year |-> FirstYear])
        /\ \A i \in 1..(j - 1) :
              DirectionOf(issued[i]) = DirectionOf(issued[j])
                  => YearOf(issued[i]) # YearOf(issued[j])
        => SerialOf(issued[j]) = 1

\* a card was issued in the new year while a card of its direction from the
\* year before was still stored
C16_Witness ==
    /\ Len(issued) = 2
    /\ DirectionOf(issued[1]) = DirectionOf(issued[2])
    /\ YearOf(issued[1]) # YearOf(issued[2])
    /\ {issued[1], issued[2]} \subseteq CardIds(db)

HexUpper == {"0", "1", "2", "3", "4", "5", "6", "7", "8", "9",
             "A", "B", "C", "D", "E", "F"}

\* C17: every id generate returns for RC or TC, whatever the serial of the
\* latest card of that direction, is 2 year digits, 6 serial digits, the
\* requested direction code and 16 uppercase hexadecimal characters, and the
\* serial read back from characters 3-8 is the serial that was assigned.
C17_IdFormat ==
    last.op = "generate" /\ last.direction \in Directions =>
        LET id == last.ret
        IN  /\ Len(id) = 2 + SerialWidth + 2 + 2 * TokenBytes
            /\ \A i \in 1..(2 + SerialWidth) : IsDigit(id[i])
            /\ DirectionOf(id) = TypeChars(last.direction)
            /\ \A i \in (5 + SerialWidth)..Len(id) : id[i] \in HexUpper
            /\ SerialOf(id) = get_next_serial(db, last.direction, now)

\* C18: generate, add_qsl_card and recycle_qsl_card given a direction other
\* than RC or TC fail and change no card, link or flag.
C18_InvalidDirectionFails ==
    [][ /\ last'.op \in {"generate", "add_qsl_card", "recycle_qsl_card"}
        /\ last'.direction \notin Directions
        => /\ last'.ret = (IF last'.op = "generate" THEN Raised ELSE FALSE)
           /\ UNCHANGED <<logs, cards, links>>
    ]_vars

\* record a is earlier than record b by (date, clock time)
Earlier(a, b) ==
    \/ ToInt(DateChars(a.qso_date)) < ToInt(DateChars(b.qso_date))
    \/ /\ a.qso_date = b.qso_date
       /\ ClockTime(a.time_on) < ClockTime(b.time_on)

\* C19: after a reorder of n contacts the sort_id values are exactly 1..n,
\* each used once, the contact with the earlier (date, time) has the smaller
\* sort_id, and ids and all other fields are unchanged.
C19_ReorderRanks ==
    [][ last'.op = "reorder" =>
          /\ DOMAIN logs' = DOMAIN logs
          /\ {logs'[i].sort_id : i \in DOMAIN logs'} = 1..Cardinality(DOMAIN logs)
          /\ \A i, j \in DOMAIN logs :
                Earlier(logs[i], logs[j]) => logs'[i].sort_id < logs'[j].sort_id
          /\ \A i \in DOMAIN logs :
                [logs'[i] EXCEPT !.sort_id = logs[i].sort_id] = logs[i]
    ]_vars

\* a reorder has renumbered contacts that were stored out of time order,
\* after a delete left a gap in the ids
C19_Witness ==
    /\ last.op = "reorder"
    /\ \E i, j \in DOMAIN logs :
          i < j /\ Earlier(logs[j], logs[i]) /\ logs[j].sort_id < logs[i].sort_id
    /\ \E i \in DOMAIN logs : i > Cardinality(DOMAIN logs)

\* C20: a reorder is atomic: the stored sort_ids are either all the old ones
\* or all the new ones, and when one row's UPDATE fails every sort_id is
\* unchanged and the operation reports failure.
C20_ReorderAtomic ==
    [][ last'.op = "reorder" =>
          /\ \/ logs' = logs
             \/ logs' = reorder_logs_by_time(db, NoFault).db.logs
          /\ last'.fault # NoFault => logs' = logs /\ ~last'.ret
    ]_vars

\* C21: update of an id that is not in the store reports failure and changes
\* nothing; it reports success only when the record with that id exists and
\* has been replaced.
C21_UpdateNotFound ==
    [][ last'.op = "update_log_entry" =>
          IF last'.log_id \in DOMAIN logs
          THEN last'.ret =>
                  \A key \in UpdateKeys :
                      logs'[last'.log_id][key] = last'.log_data[key]
          ELSE ~last'.ret /\ UNCHANGED <<logs, cards, links>>
    ]_vars

\* C22: delete of an id removes that contact and every link of that contact
\* and no other contact or link; deleting an id that is absent raises no
\* error and leaves the state exactly as it was.
C22_DeleteCascades ==
    [][ last'.op = "delete_log" =>
          /\ logs' = [i \in DOMAIN logs \ {last'.log_id} |-> logs[i]]
          /\ links' = {l \in links : l.log_id # last'.log_id}
          /\ last'.ret \in BOOLEAN
          /\ last'.log_id \notin DOMAIN logs => UNCHANGED <<logs, cards, links>>
    ]_vars

\* a contact that had a card was deleted (its card is left without a link)
\* while the other contact keeps its link
C22_Witness ==
    /\ last.op = "delete_log"
    /\ last.log_id \notin DOMAIN logs
    /\ \E i \in 1..Len(cards) : LinksOfCard(links, cards[i].qsl_id) = {}
    /\ links # {}

\* the members of cluster c, other than its lowest id, whose field is non-empty
Donors(ls, c, key) == {i \in c \ {Canonical(c)} : Truthy(key, ls[i][key])}

\* C23: after merging a cluster of any size the record with the lowest id
\* survives, every other member is deleted, and nothing folded is lost: a
\* field (other than the comment, which is appended to) that was empty in the
\* canonical record and non-empty in some member holds the value of the
\* lowest-id member in which it was non-empty.
C23_MergeKeepsFoldedValues ==
    [][ last'.op = "merge" =>
          \A c \in SeqToSet(last'.duplicate_sets) :
              /\ Canonical(c) \in DOMAIN logs'
              /\ \A i \in c \ {Canonical(c)} : i \notin DOMAIN logs'
              /\ \A key \in DataKeys \ {"comment"} :
                    /\ ~Truthy(key, logs[Canonical(c)][key])
                    /\ Donors(logs, c, key) # {}
                    => logs'[Canonical(c)][key]
                          = logs[Canonical(Donors(logs, c, key))][key]
    ]_vars

\* the member of cluster c with the earliest clock time
Seed(c) ==
    CHOOSE i \in c : \A j \in c :
        ClockTime(logs[i].time_on) <= ClockTime(logs[j].time_on)

\* C24: the scan emits only sets of at least 2 contacts that share the same
\* case-insensitive (callsign, date, band, mode), and each member's clock
\* time is within 5 minutes of that of the cluster's earliest member:
\* contacts at 12:00, 12:04 and 12:08 yield the one cluster {12:00, 12:04}.
C24_ClusterWithinWindowOfSeed ==
    last.op = "find_all_duplicates" =>
        \A c \in SeqToSet(last.ret) :
            /\ Cardinality(c) >= 2
            /\ \A i, j \in c : SameKey(logs[i], logs[j])
            /\ \A i \in c :
                  ClockTime(logs[i].time_on) - ClockTime(logs[Seed(c)].time_on)
                      <= WindowMinutes * 60

\* C29: the clusters one scan returns are pairwise disjoint: no contact id
\* appears in two of them, so that merging one cluster deletes no record of
\* another.
C29_ClustersDisjoint ==
    last.op = "find_all_duplicates" =>
        \A a, b \in 1..Len(last.ret) :
            a # b => last.ret[a] \cap last.ret[b] = {}

\* C25: each (contact, direction) pair cycles UNLINKED -> LINKED -> UNLINKED:
\* a recycle leaves the contact without a card of the direction, an issuance
\* for a contact without a card of the direction (also after a recycle) is
\* not skipped and links it to a newly created card, and an issuance for a
\* contact that has a card of the direction is skipped and changes nothing.
C25_LinkCycle ==
    [][ /\ last'.op = "recycle" /\ last'.ret =>
              CardsOfLog(db', last'.log_id, last'.direction) = {}
        /\ last'.op = "issue" =>
              \A i \in last'.skipped \cup SeqToSet(last'.log_ids) :
                  IF CardsOfLog(db, i, last'.direction) # {}
                  THEN /\ i \in last'.skipped
                       /\ logs'[i] = logs[i]
                       /\ {l \in links' : l.log_id = i} = {l \in links : l.log_id = i}
                  ELSE i \notin last'.skipped
        /\ last'.op \in IssueOps =>
              /\ \A n \in 1..Len(last'.adds) :
                    /\ last'.adds[n].ret
                    /\ last'.adds[n].qsl_id \notin CardIds(db)
                    /\ \A i \in SeqToSet(last'.adds[n].log_ids) :
                          last'.adds[n].qsl_id
                              \in CardsOfLog(db', i, last'.direction)
              /\ ~job'.pending =>
                    \A i \in SeqToSet(last'.log_ids) :
                        CardsOfLog(db', i, last'.direction) # {}
    ]_vars

\* the only contact got a card, the card was recycled, and a second issuance
\* of the same direction gave the contact a new card
C25_Witness ==
    /\ DOMAIN logs = {1}
    /\ last.op = "issue"
    /\ Len(issued) = 2
    /\ DirectionOf(issued[1]) = DirectionOf(issued[2])
    /\ Len(cards) = 1
    /\ CardsOfLog(db, 1, last.direction) = {issued[2]}

\* C26: after any sequence of insert, delete and reorder no two stored
\* contacts have the same sort_id, and a newly inserted contact gets a
\* sort_id above that of every older contact, so it is listed first in the
\* descending sort_id order.
C26_SortIdsDistinct ==
    [][ /\ \A i, j \in DOMAIN logs' :
              i # j => logs'[i].sort_id # logs'[j].sort_id
        /\ last'.op = "new_log" /\ last'.ret # NoId =>
              \A i \in DOMAIN logs : logs[i].sort_id < logs'[last'.ret].sort_id
    ]_vars

\* C27: import is idempotent on the set of contacts: importing a record a
\* second time, right after the import that created its contact, creates no
\* additional contact and leaves that contact unchanged.
C27_ImportIdempotent ==
    [][ /\ last.op = "import" /\ last.ret # NoId
        /\ last'.op = "import" /\ last'.qso = last.qso
        => logs' = logs
    ]_vars

\* C28: in every state reachable by batch issuance, recycle, contact
\* deletion, merge and reset_all (no statement failing), every link row
\* refers to a card row that exists and to a contact row that exists.
C28_LinksReferToRows ==
    \A l \in links : l.qsl_id \in CardIds(db) /\ l.log_id \in DOMAIN logs

\* a contact that had a card was deleted: its card stays without a link,
\* while another contact's link is still there
C28_Witness ==
    /\ last.op = "delete"
    /\ links # {}
    /\ \E q \in CardIds(db) : \A l \in links : l.qsl_id # q

\* C30: editing a contact (update) and reorder_by_time leave every card row,
\* every link row and every contact's qsl_sent and qsl_rcvd unchanged; update
\* also leaves the contacts' ids and sort_ids unchanged, and reorder leaves
\* every field other than sort_id unchanged.
C30_EditAndReorderFrame ==
    [][ last'.op \in {"update", "reorder"} =>
          /\ cards' = cards
          /\ links' = links
          /\ DOMAIN logs' = DOMAIN logs
          /\ \A i \in DOMAIN logs :
                /\ logs'[i].qsl_sent = logs[i].qsl_sent
                /\ logs'[i].qsl_rcvd = logs[i].qsl_rcvd
                /\ last'.op = "update" => logs'[i].sort_id = logs[i].sort_id
                /\ last'.op = "reorder" =>
                      \A key \in DataKeys \ {"sort_id"} :
                          logs'[i][key] = logs[i][key]
    ]_vars

\* a reorder has renumbered contacts whose times an edit had brought out of
\* order, with cards, links and a set flag in the store
C30_Witness ==
    /\ last.op = "reorder"
    /\ cards # <<>>
    /\ links # {}
    /\ \E i \in DOMAIN logs : logs[i].sort_id # i
    /\ \E i \in DOMAIN logs : logs[i].qsl_sent = "Y" \/ logs[i].qsl_rcvd = "Y"

====
